---- MODULE Spec2Model ----
(***************************************************************************)
(* Model of the hybrid LRU/TTL cache of src/src/index.ts: class Node,      *)
(* class MinHeap (binary min-heap on expiresAt with back-pointers) and     *)
(* class LRUCache (index Map, recency list, expiry heap, cleanup timer).   *)
(*                                                                         *)
(* Node objects live in an arena: a reference is the integer of a slot    *)
(* and NULL is the null reference.  `new Node` for KeyName[i] takes slot   *)
(* i, or, while an older object with that key is still referenced, the     *)
(* first free one of the slots i + NumKeys, i + 2 * NumKeys, ...           *)
(* Every operation leaves the fields of a node it removes as               *)
(* the code leaves them; once the call has returned, node objects that     *)
(* nothing references any more are garbage and leave `nodes`, and the      *)
(* ones the call dropped from the index are kept in `last.removed`.        *)
(* Array positions are 0-based as in the source; the TLA+ sequence `heap`  *)
(* holds position i at heap[i + 1].                                        *)
(* Times are milliseconds; the clock advances in steps of CLOCK_STEP and   *)
(* every ttl is a multiple of TTL_STEP.                                    *)
(***************************************************************************)
EXTENDS Integers, Sequences, FiniteSets, TLC

----------------------------------------------------------------------------
(* Bounds *)

NumKeys == 3
NumValues == 2
MaxTtlSteps == 2
MaxClockSteps == 3
ManualClockSteps == 2
MaxCap == 2
LiveClockSteps == 6
MaxHeap == 6

----------------------------------------------------------------------------
(* Program constants *)

BUFFER_MS == 10
DEFAULT_CLEANUP_INTERVAL == 60000

----------------------------------------------------------------------------
(* Granularity of the inputs: the buffer added to a cleanup delay is one   *)
(* clock step, and a ttl may end halfway between two clock readings.       *)

TTL_STEP == BUFFER_MS \div 2
CLOCK_STEP == 2 * TTL_STEP

----------------------------------------------------------------------------
(* Input domains *)

KeyName == <<"a", "b", "c", "d", "e", "f", "g", "h">>

NULL == 0
NO_INDEX == -1

Refs == 1 .. NumKeys
Keys == {KeyName[i] : i \in Refs}
Values == 1 .. NumValues

\* A key argument as the caller passes it: a string, or a non-string value.
KeyArgs == [isString : {TRUE}, str : Keys \cup {""}] \cup {[isString |-> FALSE, str |-> ""]}

\* A ttlMs argument: a finite number, NaN or +/-Infinity.
TtlArgs ==
    [kind : {"finite"}, n : {i * TTL_STEP : i \in -1 .. MaxTtlSteps}]
        \cup [kind : {"nan", "inf", "-inf"}, n : {0}]

\* A maxSize argument: a finite number given in halves (3 stands for 1.5),
\* NaN or +/-Infinity.
SizeArgs ==
    [kind : {"finite"}, halves : -1 .. 2 * MaxCap + 1]
        \cup [kind : {"nan", "inf", "-inf"}, halves : {0}]

\* A cleanupInterval option: a number as for ttlMs, or left out.
IntervalArgs == TtlArgs \cup {[kind |-> "omitted", n |-> 0]}

\* Number.POSITIVE_INFINITY among the integers of the model: above every
\* finite number that the model forms.
INFINITY == 2 ^ 30

\* The largest delay of a timer of Node.js, in milliseconds.
TIMEOUT_MAX == 2147483647

\* The arguments that set accepts.
ValidKeyArgs == {k \in KeyArgs : k.isString /\ k.str # ""}

ValidTtlArgs == {t \in TtlArgs : t.kind = "finite" /\ t.n > 0}

\* The slot that the first node object of a key takes.
RefOf(key) == CHOOSE i \in Refs : KeyName[i] = key

----------------------------------------------------------------------------
(* State *)

VARIABLES
    maxSize,          \* LRUCache.maxSize
    cleanupInterval,  \* LRUCache.cleanupInterval
    autoCleanup,      \* LRUCache.autoCleanup
    cache,            \* LRUCache.cache: function key -> node reference
    head,             \* LRUCache.head
    tail,             \* LRUCache.tail
    heap,             \* LRUCache.expiryHeap.heap: sequence of node references
    nodes,            \* the Node objects: reference -> fields
    cleanupTimer,     \* LRUCache.cleanupTimer: NULL or the id of a timer handle
    timers,           \* armed timers of the host: records [id, kind, due]
    now,              \* the clock read by Date.now()
    last              \* the call made since the clock last advanced: operation,
                      \* arguments, returned value, where the key's node was
                      \* in the recency list before, node objects it dropped

vars == <<maxSize, cleanupInterval, autoCleanup, cache, head, tail, heap, nodes,
          cleanupTimer, timers, now, last>>

----------------------------------------------------------------------------
(* class Node *)

NewNode(key, value, expiresAt) ==
    [key |-> key, value |-> value, expiresAt |-> expiresAt,
     prev |-> NULL, next |-> NULL, heapIndex |-> NO_INDEX]

----------------------------------------------------------------------------
(* Node objects that are still referenced *)

Range(f) == {f[x] : x \in DOMAIN f}

Roots(st) ==
    (Range(st.cache) \cup {st.heap[i] : i \in 1 .. Len(st.heap)} \cup {st.head, st.tail})
        \ {NULL}

RECURSIVE Reachable(_, _)
Reachable(st, S) ==
    LET S2 == (S \cup {st.nodes[r].prev : r \in S} \cup {st.nodes[r].next : r \in S}) \ {NULL}
    IN  IF S2 = S THEN S ELSE Reachable(st, S2)

Collect(st) ==
    [st EXCEPT !.nodes = [r \in Reachable(st, Roots(st)) |-> st.nodes[r]]]

Referenced(st) == Reachable(st, Roots(st))

\* The reference of the object that `new Node(key, ...)` makes: a new
\* object, never one that is still referenced.
NewRef(st, key) ==
    CHOOSE r \in {RefOf(key) + i * NumKeys : i \in 0 .. Cardinality(Referenced(st))} :
        /\ r \notin Referenced(st)
        /\ \A i \in 0 .. Cardinality(Referenced(st)) :
            RefOf(key) + i * NumKeys < r => RefOf(key) + i * NumKeys \in Referenced(st)

----------------------------------------------------------------------------
(* class MinHeap.  A heap state hs is [heap, nodes]: the array and the     *)
(* node objects, whose heapIndex fields the heap operations assign.        *)

HeapSize(h) == Len(h)

HeapPeek(h) == IF Len(h) = 0 THEN NULL ELSE h[1]

\* swap that exchanges the two array elements and leaves heapIndex alone
HeapSwapNoIndex(hs, i, j) ==
    [hs EXCEPT !.heap = [hs.heap EXCEPT ![i + 1] = hs.heap[j + 1], ![j + 1] = hs.heap[i + 1]]]

HeapSwap(hs, i, j) ==
    LET h2 == [hs.heap EXCEPT ![i + 1] = hs.heap[j + 1], ![j + 1] = hs.heap[i + 1]]
        n1 == [hs.nodes EXCEPT ![h2[i + 1]].heapIndex = i]
        n2 == [n1 EXCEPT ![h2[j + 1]].heapIndex = j]
    IN  [heap |-> h2, nodes |-> n2]

\* bubbleUp that stops after the first swap
BubbleUpOnce(hs, idx) ==
    IF idx > 0 /\ hs.nodes[hs.heap[idx + 1]].expiresAt
                    < hs.nodes[hs.heap[(idx - 1) \div 2 + 1]].expiresAt
    THEN HeapSwap(hs, idx, (idx - 1) \div 2)
    ELSE hs

RECURSIVE BubbleUp(_, _)
BubbleUp(hs, idx) ==
    IF idx > 0
    THEN LET parentIdx == (idx - 1) \div 2
         IN  IF hs.nodes[hs.heap[idx + 1]].expiresAt
                    >= hs.nodes[hs.heap[parentIdx + 1]].expiresAt
             THEN hs
             ELSE BubbleUp(HeapSwap(hs, idx, parentIdx), parentIdx)
    ELSE hs

RECURSIVE BubbleDown(_, _)
BubbleDown(hs, idx) ==
    LET exp(i) == hs.nodes[hs.heap[i + 1]].expiresAt
        left == 2 * idx + 1
        right == 2 * idx + 2
        s1 == IF left < Len(hs.heap) /\ exp(left) < exp(idx) THEN left ELSE idx
        smallest == IF right < Len(hs.heap) /\ exp(right) < exp(s1) THEN right ELSE s1
    IN  IF smallest = idx
        THEN hs
        ELSE BubbleDown(HeapSwap(hs, idx, smallest), smallest)

\* insert that leaves the new node at the end of the array
HeapInsertNoBubble(hs, node) ==
    LET h2 == Append(hs.heap, node)
    IN  [heap |-> h2, nodes |-> [hs.nodes EXCEPT ![node].heapIndex = Len(h2) - 1]]

HeapInsert(hs, node) ==
    LET h2 == Append(hs.heap, node)
        n2 == [hs.nodes EXCEPT ![node].heapIndex = Len(h2) - 1]
    IN  BubbleUp([heap |-> h2, nodes |-> n2], Len(h2) - 1)

HeapPop(h) == SubSeq(h, 1, Len(h) - 1)

\* remove that only sifts the moved node down
HeapRemoveNoBubbleUp(hs, node) ==
    LET idx == hs.nodes[node].heapIndex
        lastIdx == Len(hs.heap) - 1
    IN  IF idx = NO_INDEX \/ idx >= Len(hs.heap)
        THEN hs
        ELSE IF idx = lastIdx
        THEN [heap |-> HeapPop(hs.heap),
              nodes |-> [hs.nodes EXCEPT ![node].heapIndex = NO_INDEX]]
        ELSE BubbleDown(
                 [heap |-> HeapPop(HeapSwap(hs, idx, lastIdx).heap),
                  nodes |-> [HeapSwap(hs, idx, lastIdx).nodes EXCEPT ![node].heapIndex = NO_INDEX]],
                 idx)

HeapRemove(hs, node) ==
    LET idx == hs.nodes[node].heapIndex
        lastIdx == Len(hs.heap) - 1
    IN  IF idx = NO_INDEX \/ idx >= Len(hs.heap)
        THEN hs
        ELSE IF idx = lastIdx
        THEN [heap |-> HeapPop(hs.heap),
              nodes |-> [hs.nodes EXCEPT ![node].heapIndex = NO_INDEX]]
        ELSE LET swapped == HeapSwap(hs, idx, lastIdx)
                 popped == [heap |-> HeapPop(swapped.heap),
                            nodes |-> [swapped.nodes EXCEPT ![node].heapIndex = NO_INDEX]]
             IN  IF idx < Len(popped.heap)
                 THEN BubbleDown(BubbleUp(popped, idx), idx)
                 ELSE popped

\* extractMin that returns the minimum and leaves it in the array
HeapExtractMinKeeps(hs) == [hs |-> hs, node |-> HeapPeek(hs.heap)]

\* Returns [hs, node]: the heap state afterwards and the extracted node (or NULL).
HeapExtractMin(hs) ==
    IF Len(hs.heap) = 0
    THEN [hs |-> hs, node |-> NULL]
    ELSE IF Len(hs.heap) = 1
    THEN [hs |-> [heap |-> <<>>,
                  nodes |-> [hs.nodes EXCEPT ![hs.heap[1]].heapIndex = NO_INDEX]],
          node |-> hs.heap[1]]
    ELSE LET min == hs.heap[1]
             n1 == [hs.nodes EXCEPT ![min].heapIndex = NO_INDEX]
             lastNode == hs.heap[Len(hs.heap)]
             h2 == [HeapPop(hs.heap) EXCEPT ![1] = lastNode]
             n2 == [n1 EXCEPT ![lastNode].heapIndex = 0]
         IN  [hs |-> BubbleDown([heap |-> h2, nodes |-> n2], 0), node |-> min]

----------------------------------------------------------------------------
(* class LRUCache: the recency list.  A cache state st is                  *)
(* [cache, head, tail, heap, nodes].                                       *)

AddToFront(st, node) ==
    LET n1 == [st.nodes EXCEPT ![node].next = st.head, ![node].prev = NULL]
        n2 == IF st.head # NULL THEN [n1 EXCEPT ![st.head].prev = node] ELSE n1
    IN  [st EXCEPT !.nodes = n2,
                   !.head = node,
                   !.tail = IF st.tail = NULL THEN node ELSE st.tail]

\* removeFromList that does not patch the back link of the next node
RemoveFromListOneWay(st, node) ==
    [st EXCEPT !.head = IF st.nodes[node].prev = NULL THEN st.nodes[node].next ELSE @,
               !.tail = IF st.nodes[node].next = NULL THEN st.nodes[node].prev ELSE @,
               !.nodes = [r \in DOMAIN @ |->
                   IF r = node
                   THEN [@[r] EXCEPT !.prev = NULL, !.next = NULL]
                   ELSE IF r = st.nodes[node].prev
                   THEN [@[r] EXCEPT !.next = st.nodes[node].next]
                   ELSE @[r]]]

RemoveFromList(st, node) ==
    LET prevNode == st.nodes[node].prev
        s1 == IF prevNode # NULL
              THEN [st EXCEPT !.nodes[prevNode].next = st.nodes[node].next]
              ELSE [st EXCEPT !.head = st.nodes[node].next]
        nextNode == s1.nodes[node].next
        s2 == IF nextNode # NULL
              THEN [s1 EXCEPT !.nodes[nextNode].prev = s1.nodes[node].prev]
              ELSE [s1 EXCEPT !.tail = s1.nodes[node].prev]
    IN  [s2 EXCEPT !.nodes[node].prev = NULL, !.nodes[node].next = NULL]

\* moveToFront that leaves the node where it is
MoveToFrontStays(st, node) == st

MoveToFront(st, node) == AddToFront(RemoveFromList(st, node), node)

----------------------------------------------------------------------------
(* class LRUCache: index, heap and list together *)

MapDelete(m, key) == [k \in DOMAIN m \ {key} |-> m[k]]

MapSet(m, key, node) == [k \in DOMAIN m \cup {key} |-> IF k = key THEN node ELSE m[k]]

MapSize(m) == Cardinality(DOMAIN m)

EmptyMap == [k \in {} |-> NULL]

WithHeap(st, hs) == [st EXCEPT !.heap = hs.heap, !.nodes = hs.nodes]

HeapOf(st) == [heap |-> st.heap, nodes |-> st.nodes]

RemoveNodeKeepsIndex(st, node) ==
    RemoveFromList(WithHeap(st, HeapRemove(HeapOf(st), node)), node)

RemoveNode(st, node) ==
    LET s1 == WithHeap(st, HeapRemove(HeapOf(st), node))
        s2 == RemoveFromList(s1, node)
    IN  [s2 EXCEPT !.cache = MapDelete(s2.cache, s2.nodes[node].key)]

\* The sweep step without its cache.delete
DropMinKeepsIndex(st) ==
    LET ex == HeapExtractMin(HeapOf(st))
    IN  IF ex.node = NULL
        THEN WithHeap(st, ex.hs)
        ELSE RemoveFromList(WithHeap(st, ex.hs), ex.node)

\* extractMin, removeFromList, cache.delete: the three statements that
\* cleanExpired and both branches of evict run on the heap minimum.
DropMin(st) ==
    LET ex == HeapExtractMin(HeapOf(st))
        s1 == WithHeap(st, ex.hs)
    IN  IF ex.node = NULL
        THEN s1
        ELSE LET s2 == RemoveFromList(s1, ex.node)
             IN  [s2 EXCEPT !.cache = MapDelete(s2.cache, s2.nodes[ex.node].key)]

\* Returns [st, count].
RECURSIVE CleanExpiredLoopStrict(_, _, _)
CleanExpiredLoopStrict(st, t, cleanedCount) ==
    IF HeapSize(st.heap) > 0
    THEN LET node == HeapPeek(st.heap)
         IN  IF node = NULL \/ st.nodes[node].expiresAt >= t
             THEN [st |-> st, count |-> cleanedCount]
             ELSE CleanExpiredLoopStrict(DropMin(st), t, cleanedCount + 1)
    ELSE [st |-> st, count |-> cleanedCount]

\* A sweep that also takes the entries that expire within the next step
RECURSIVE CleanExpiredLoopEager(_, _, _)
CleanExpiredLoopEager(st, t, cleanedCount) ==
    IF HeapSize(st.heap) > 0
    THEN LET node == HeapPeek(st.heap)
         IN  IF node = NULL \/ st.nodes[node].expiresAt > t + TTL_STEP
             THEN [st |-> st, count |-> cleanedCount]
             ELSE CleanExpiredLoopEager(DropMin(st), t, cleanedCount + 1)
    ELSE [st |-> st, count |-> cleanedCount]

RECURSIVE CleanExpiredLoop(_, _, _)
CleanExpiredLoop(st, t, cleanedCount) ==
    IF HeapSize(st.heap) > 0
    THEN LET node == HeapPeek(st.heap)
         IN  IF node = NULL \/ st.nodes[node].expiresAt > t
             THEN [st |-> st, count |-> cleanedCount]
             ELSE CleanExpiredLoop(DropMin(st), t, cleanedCount + 1)
    ELSE [st |-> st, count |-> cleanedCount]

CleanExpired(st, t) == CleanExpiredLoop(st, t, 0)

\* evict, and a strict LRU eviction in its place.
EvictTail(st, t) == IF st.tail # NULL THEN RemoveNode(st, st.tail) ELSE st

Evict(st, t) ==
    LET peek == HeapPeek(st.heap)
    IN  IF HeapSize(st.heap) > 0 /\ peek # NULL /\ st.nodes[peek].expiresAt <= t
        THEN DropMin(st)
        ELSE IF HeapSize(st.heap) > 0
        THEN DropMin(st)
        ELSE st

\* Which branch of evict removes an entry: "expired" (the first if),
\* "soonest" (Option 1) or "none" (empty heap).
EvictBranch(st, t) ==
    IF HeapSize(st.heap) > 0 /\ HeapPeek(st.heap) # NULL
                             /\ st.nodes[HeapPeek(st.heap)].expiresAt <= t
    THEN "expired"
    ELSE IF HeapSize(st.heap) > 0
    THEN "soonest"
    ELSE "none"

\* The expiry test of get.
ExpiredOnGetStrict(t, expiresAt) == t > expiresAt

ExpiredOnGet(t, expiresAt) == t >= expiresAt

\* get without the expiry test
GetIgnoresExpiry(st, keyArg, t) ==
    IF ~(keyArg.isString /\ keyArg.str \in DOMAIN st.cache)
    THEN [st |-> st, ret |-> NULL]
    ELSE [st |-> MoveToFront(st, st.cache[keyArg.str]),
          ret |-> st.nodes[st.cache[keyArg.str]].value]

\* get() that answers an expired key with a sweep of all expired entries
GetSweeps(st, keyArg, t) ==
    IF ~(keyArg.isString /\ keyArg.str \in DOMAIN st.cache)
    THEN [st |-> st, ret |-> NULL]
    ELSE IF ExpiredOnGet(t, st.nodes[st.cache[keyArg.str]].expiresAt)
    THEN [st |-> CleanExpired(st, t).st, ret |-> NULL]
    ELSE [st |-> MoveToFront(st, st.cache[keyArg.str]),
          ret |-> st.nodes[st.cache[keyArg.str]].value]

\* Returns [st, ret]: ret is the value or NULL.
Get(st, keyArg, t) ==
    IF ~(keyArg.isString /\ keyArg.str \in DOMAIN st.cache)
    THEN [st |-> st, ret |-> NULL]
    ELSE LET node == st.cache[keyArg.str]
         IN  IF ExpiredOnGet(t, st.nodes[node].expiresAt)
             THEN [st |-> RemoveNode(st, node), ret |-> NULL]
             ELSE LET s1 == MoveToFront(st, node)
                  IN  [st |-> s1, ret |-> s1.nodes[node].value]

IsFinite(x) == x.kind = "finite"

\* x <= 0 as JavaScript evaluates it: false for NaN.
NotPositiveStrict(x) == x.kind = "-inf" \/ (x.kind = "finite" /\ x.n < 0)

NotPositive(x) == x.kind = "-inf" \/ (x.kind = "finite" /\ x.n <= 0)

\* The capacity test of set.
AtCapacityEarly(st) == MapSize(st.cache) >= maxSize - 1

AtCapacityLate(st) == MapSize(st.cache) > maxSize

AtCapacity(st) == MapSize(st.cache) >= maxSize

\* const expiresAt = now + ttlMs
ExpiryNoClock(t, ttlMs) == ttlMs

ExpiryOf(t, ttlMs) == t + ttlMs

\* The branch of set for a key that is in the index.
UpdateKeepsValue(st, node, value, expiresAt) ==
    LET s2 == WithHeap(st, HeapRemove(HeapOf(st), node))
        s3 == [s2 EXCEPT !.nodes[node].expiresAt = expiresAt]
        s4 == WithHeap(s3, HeapInsert(HeapOf(s3), node))
    IN  MoveToFront(s4, node)

UpdateNoReheap(st, node, value, expiresAt) ==
    LET s1 == [st EXCEPT !.nodes[node].value = value]
        s3 == [s1 EXCEPT !.nodes[node].expiresAt = expiresAt]
    IN  MoveToFront(s3, node)

UpdateExisting(st, node, value, expiresAt) ==
    LET s1 == [st EXCEPT !.nodes[node].value = value]
        s2 == WithHeap(s1, HeapRemove(HeapOf(s1), node))
        s3 == [s2 EXCEPT !.nodes[node].expiresAt = expiresAt]
        s4 == WithHeap(s3, HeapInsert(HeapOf(s3), node))
    IN  MoveToFront(s4, node)

\* The branch of set for a new key.
\* if (this.cache.size >= this.maxSize) this.evict()
MakeRoom(st, t) == IF AtCapacity(st) THEN Evict(st, t) ELSE st

\* new Node(key, value, expiresAt); this.cache.set(key, node)
AddEntry(st, node, key, value, expiresAt) ==
    [st EXCEPT !.nodes = (node :> NewNode(key, value, expiresAt)) @@ st.nodes,
               !.cache = MapSet(st.cache, key, node)]

\* this.expiryHeap.insert(node)
AddToHeap(st, node) == WithHeap(st, HeapInsert(HeapOf(st), node))

\* The node into the index, the heap and the front of the list.
PlaceNode(st, node, key, value, expiresAt) ==
    AddToFront(AddToHeap(AddEntry(st, node, key, value, expiresAt), node), node)

\* new Node(key, value, expiresAt) and the three statements after it, in
\* the state `room` that the sweep and the eviction left.
InsertNode(room, key, value, expiresAt) ==
    PlaceNode(room, NewRef(room, key), key, value, expiresAt)

\* The new-key branch of set without the sweep before the capacity test
InsertNewNoSweep(st, key, value, expiresAt, t) ==
    InsertNode(MakeRoom(st, t), key, value, expiresAt)

\* cleanExpired, evict at capacity, the new node into the index, the heap
\* and the front of the list: each statement works on the state the one
\* before it left.
InsertNew(st, key, value, expiresAt, t) ==
    InsertNode(MakeRoom(CleanExpired(st, t).st, t), key, value, expiresAt)

\* Returns [st, ret]: ret is "ok" or the message of the Error thrown.
Set(st, keyArg, value, ttlArg, t) ==
    IF ~keyArg.isString \/ keyArg.str = ""
    THEN [st |-> st, ret |-> "key must be a non-empty string"]
    ELSE IF ~IsFinite(ttlArg) \/ NotPositive(ttlArg)
    THEN [st |-> st, ret |-> "ttlMs must be a positive finite number"]
    ELSE LET key == keyArg.str
             expiresAt == ExpiryOf(t, ttlArg.n)
         IN  IF key \in DOMAIN st.cache
             THEN [st |-> UpdateExisting(st, st.cache[key], value, expiresAt), ret |-> "ok"]
             ELSE [st |-> InsertNew(st, key, value, expiresAt, t), ret |-> "ok"]

\* Returns [st, ret].
DeleteAlwaysTrue(st, keyArg) ==
    IF keyArg.isString /\ keyArg.str \in DOMAIN st.cache
    THEN [st |-> RemoveNode(st, st.cache[keyArg.str]), ret |-> TRUE]
    ELSE [st |-> st, ret |-> TRUE]

Delete(st, keyArg) ==
    IF keyArg.isString /\ keyArg.str \in DOMAIN st.cache
    THEN [st |-> RemoveNode(st, st.cache[keyArg.str]), ret |-> TRUE]
    ELSE [st |-> st, ret |-> FALSE]

Size(st) == MapSize(st.cache)

----------------------------------------------------------------------------
(* class LRUCache: the background cleanup timer.  A timer state ts is      *)
(* [cleanupTimer, timers].                                                 *)

\* The handle a setInterval / setTimeout call returns: a new object.
NewHandle(ts) ==
    CHOOSE id \in 1 .. Cardinality(ts.timers) + 2 :
        /\ id # ts.cleanupTimer
        /\ \A tm \in ts.timers : tm.id # id

\* The delay the host gives a timer: setInterval and setTimeout of Node.js
\* take a delay below 1 or above TIMEOUT_MAX (also NaN and Infinity) as 1.
HostDelay(ms) == IF ms < 1 \/ ms > TIMEOUT_MAX \/ ms >= INFINITY THEN 1 ELSE ms

\* clearInterval / clearTimeout: no effect on a handle that is not armed.
ClearTimer(timerSet, handle) == {tm \in timerSet : tm.id # handle}

StartBackgroundCleanup(ts, t) ==
    IF ts.cleanupTimer # NULL
    THEN ts
    ELSE LET id == NewHandle(ts)
         IN  [cleanupTimer |-> id,
              timers |-> ts.timers \cup
                  {[id |-> id, kind |-> "interval", due |-> t + HostDelay(cleanupInterval)]}]

\* scheduleNextCleanup() that arms the one-shot next to the interval
ScheduleKeepsInterval(ts, delayMs, t) ==
    [cleanupTimer |-> NewHandle(ts),
     timers |-> ts.timers \cup {[id |-> NewHandle(ts), kind |-> "timeout", due |-> t + HostDelay(delayMs)]}]

ScheduleNextCleanup(ts, delayMs, t) ==
    LET s1 == IF ts.cleanupTimer # NULL
              THEN [cleanupTimer |-> NULL, timers |-> ClearTimer(ts.timers, ts.cleanupTimer)]
              ELSE ts
        id == NewHandle(s1)
    IN  [cleanupTimer |-> id,
         timers |-> s1.timers \cup {[id |-> id, kind |-> "timeout", due |-> t + HostDelay(delayMs)]}]

\* stopBackgroundCleanup() that drops the handle without clearing the timer
StopForgetsHandle(ts) == [ts EXCEPT !.cleanupTimer = NULL]

StopBackgroundCleanup(ts) ==
    IF ts.cleanupTimer # NULL
    THEN [cleanupTimer |-> NULL, timers |-> ClearTimer(ts.timers, ts.cleanupTimer)]
    ELSE ts

\* clear() that leaves the expiry heap as it was
ClearKeepsHeap(st) ==
    [st EXCEPT !.cache = EmptyMap, !.head = NULL, !.tail = NULL]

\* The part of clear() that resets the entries.
ClearEntries(st) ==
    [st EXCEPT !.cache = EmptyMap, !.head = NULL, !.tail = NULL, !.heap = <<>>]

\* clear() that leaves the timer alone
ClearLeavesTimer(ts, t) == ts

\* clear() that starts the timer whatever autoCleanup says
ClearAlwaysStarts(ts, t) == StartBackgroundCleanup(StopBackgroundCleanup(ts), t)

\* The part of clear() that restarts the timer.
ClearTimers(ts, t) ==
    LET s1 == StopBackgroundCleanup(ts)
    IN  IF autoCleanup THEN StartBackgroundCleanup(s1, t) ELSE s1

----------------------------------------------------------------------------
(* Constructor and the calls a host makes *)

\* The `now` arguments a caller passes to cleanExpired: a past, the present
\* (the default, Date.now()) and a future clock reading.
CleanTimes == {now - CLOCK_STEP, now, now + TTL_STEP}

\* Clock readings from the present on, as far as any expiry reaches
FutureTimes == {now + i * TTL_STEP : i \in 0 .. MaxTtlSteps}

Cur == [cache |-> cache, head |-> head, tail |-> tail, heap |-> heap, nodes |-> nodes]

CurTimers == [cleanupTimer |-> cleanupTimer, timers |-> timers]

\* Arguments that a call does not take, in `last`
NoKey == [isString |-> FALSE, str |-> ""]

NoTtl == [kind |-> "nan", n |-> 0]

NoSize == [kind |-> "nan", halves |-> 0]

NoArgs ==
    [key |-> NoKey, value |-> NULL, ttl |-> NoTtl, t |-> 0,
     size |-> NoSize, interval |-> NoTtl, auto |-> FALSE]

KeyOnly(keyArg) == [NoArgs EXCEPT !.key = keyArg]

Has(st, keyArg) == keyArg.isString /\ keyArg.str \in DOMAIN st.cache

\* Where the node of the key is in the recency list; "none" without a node.
PositionOf(st, keyArg) ==
    IF ~Has(st, keyArg)
    THEN "none"
    ELSE LET node == st.cache[keyArg.str]
         IN  IF st.head = node /\ st.tail = node THEN "only"
             ELSE IF st.head = node THEN "head"
             ELSE IF st.tail = node THEN "tail"
             ELSE "middle"

\* The node objects that the call dropped from the index, as it left them.
Removed(st) == {st.nodes[r] : r \in Range(cache) \ Range(st.cache)}

\* What a call returned, as `last` records it: the type of the JavaScript
\* value and a number for it (the value or count itself, 1 for true, 0 for
\* false, the position of the message in ErrorMessage for a thrown Error).
ErrorMessage ==
    <<"key must be a non-empty string", "ttlMs must be a positive finite number",
      "maxSize must be a positive finite number">>

RetVoid == [type |-> "undefined", n |-> 0]

RetNull == [type |-> "null", n |-> 0]

RetValue(v) == IF v = NULL THEN RetNull ELSE [type |-> "value", n |-> v]

\* A node object that a call returned: the reference of the node.
RetNode(node) == IF node = NULL THEN RetNull ELSE [type |-> "object", n |-> node]

RetBool(b) == [type |-> "boolean", n |-> IF b THEN 1 ELSE 0]

RetNumber(c) == [type |-> "number", n |-> c]

RetError(message) ==
    [type |-> "error", n |-> CHOOSE i \in 1 .. Len(ErrorMessage) : ErrorMessage[i] = message]

RetOfSet(r) ==
    IF r = "ok"
    THEN RetVoid
    ELSE RetError(r)

\* The call returns: the state it leaves, without the garbage.
ReturnState(op, args, at, ret, st, ts) ==
    LET kept == Collect(st)
    IN  /\ cache' = kept.cache
        /\ head' = kept.head
        /\ tail' = kept.tail
        /\ heap' = kept.heap
        /\ nodes' = kept.nodes
        /\ cleanupTimer' = ts.cleanupTimer
        /\ timers' = ts.timers
        /\ last' = [op |-> op, args |-> args, ret |-> ret, at |-> at, removed |-> Removed(st)]
        /\ UNCHANGED <<maxSize, cleanupInterval, autoCleanup>>

\* The call returns and the clock has not advanced since it was entered.
Return(op, args, at, ret, st, ts) ==
    /\ ReturnState(op, args, at, ret, st, ts)
    /\ now' = now

\* The fields after new LRUCache(maxSizeArg, {cleanupInterval: intervalOpt,
\* autoCleanup: autoOpt}) at clock 0, for an integer maxSizeArg >= 1;
\* intervalOpt = 0 stands for an omitted option.
Constructed(maxSizeArg, intervalOpt, autoOpt) ==
    /\ maxSize = maxSizeArg
    /\ cache = EmptyMap
    /\ head = NULL
    /\ tail = NULL
    /\ heap = <<>>
    /\ nodes = [r \in {} |-> NULL]
    /\ cleanupInterval = IF intervalOpt # 0 THEN intervalOpt ELSE DEFAULT_CLEANUP_INTERVAL
    /\ autoCleanup = autoOpt
    /\ now = 0
    /\ LET ts == IF autoCleanup
                 THEN StartBackgroundCleanup([cleanupTimer |-> NULL, timers |-> {}], 0)
                 ELSE [cleanupTimer |-> NULL, timers |-> {}]
       IN  cleanupTimer = ts.cleanupTimer /\ timers = ts.timers
    /\ last = [op |-> "new", args |-> NoArgs, ret |-> RetVoid, at |-> "none", removed |-> {}]

Init == \E m \in 1 .. MaxCap, a \in BOOLEAN : Constructed(m, CLOCK_STEP, a)

\* new LRUCache(m, {autoCleanup: false})
InitManual == \E m \in 1 .. MaxCap : Constructed(m, 0, FALSE)

\* The validation of maxSize: !Number.isFinite(maxSize) || maxSize <= 0
SizeRejectedBelowOne(sizeArg) == sizeArg.kind # "finite" \/ sizeArg.halves < 2

SizeRejected(sizeArg) == sizeArg.kind # "finite" \/ sizeArg.halves <= 0

\* Math.floor(maxSize)
FloorOfSize(sizeArg) == sizeArg.halves \div 2

\* options.cleanupInterval || 60000: undefined, 0 and NaN are falsy.
IntervalOf(intervalArg) ==
    CASE intervalArg.kind = "omitted" -> DEFAULT_CLEANUP_INTERVAL
      [] intervalArg.kind = "nan" -> DEFAULT_CLEANUP_INTERVAL
      [] intervalArg.kind = "inf" -> INFINITY
      [] intervalArg.kind = "-inf" -> -INFINITY
      [] OTHER -> IF intervalArg.n = 0 THEN DEFAULT_CLEANUP_INTERVAL ELSE intervalArg.n

\* new LRUCache(sizeArg, {cleanupInterval: intervalArg, autoCleanup: false})
\* at clock 0.  A constructor that throws leaves no object: the fields keep
\* placeholder values and no call can follow.
NewCache(sizeArg, intervalArg) ==
    LET args == [NoArgs EXCEPT !.size = sizeArg, !.interval = intervalArg]
        thrown == SizeRejected(sizeArg)
    IN  /\ maxSize = IF thrown THEN 0 ELSE FloorOfSize(sizeArg)
        /\ cache = EmptyMap
        /\ head = NULL
        /\ tail = NULL
        /\ heap = <<>>
        /\ nodes = [r \in {} |-> NULL]
        /\ cleanupInterval = IF thrown THEN 0 ELSE IntervalOf(intervalArg)
        /\ autoCleanup = FALSE
        /\ now = 0
        /\ cleanupTimer = NULL
        /\ timers = {}
        /\ last = [op |-> "new", args |-> args,
                   ret |-> IF thrown
                           THEN RetError("maxSize must be a positive finite number")
                           ELSE RetVoid,
                   at |-> "none", removed |-> {}]

\* The constructor has returned an object.
Built == ~(last.op = "new" /\ last.ret.type = "error")

DoGet(keyArg) ==
    LET r == Get(Cur, keyArg, now)
    IN  Return("get", KeyOnly(keyArg), PositionOf(Cur, keyArg), RetValue(r.ret), r.st, CurTimers)

DoSet(keyArg, value, ttlArg) ==
    LET r == Set(Cur, keyArg, value, ttlArg, now)
    IN  Return("set", [NoArgs EXCEPT !.key = keyArg, !.value = value, !.ttl = ttlArg],
               PositionOf(Cur, keyArg), RetOfSet(r.ret), r.st, CurTimers)

DoDelete(keyArg) ==
    LET r == Delete(Cur, keyArg)
    IN  Return("delete", KeyOnly(keyArg), PositionOf(Cur, keyArg), RetBool(r.ret), r.st, CurTimers)

\* cleanExpired(t); cleanExpired() is the call with t = Date.now().
DoCleanExpired(t) ==
    LET r == CleanExpired(Cur, t)
    IN  Return("cleanExpired", [NoArgs EXCEPT !.t = t], "none", RetNumber(r.count), r.st, CurTimers)

Clear(st, ts, t) == [st |-> ClearEntries(st), ts |-> ClearTimers(ts, t)]

Destroy(st, ts, t) == Clear(st, StopBackgroundCleanup(ts), t)

DoClear ==
    LET r == Clear(Cur, CurTimers, now)
    IN  Return("clear", NoArgs, "none", RetVoid, r.st, r.ts)

DoDestroy ==
    LET r == Destroy(Cur, CurTimers, now)
    IN  Return("destroy", NoArgs, "none", RetVoid, r.st, r.ts)

\* Interval callback that reschedules for any remaining entry, however far
\* its expiry is
RescheduleAlways(s1, ts, t) ==
    [st |-> s1,
     ts |-> IF HeapSize(s1.heap) > 0
            THEN ScheduleNextCleanup(ts, s1.nodes[HeapPeek(s1.heap)].expiresAt - t + BUFFER_MS, t)
            ELSE ts]

\* The timers after the host has armed the interval tm for its next period.
Rearmed(tm) ==
    [cleanupTimer |-> cleanupTimer,
     timers |-> (timers \ {tm}) \cup {[tm EXCEPT !.due = now + HostDelay(cleanupInterval)]}]

\* The callback of setInterval in startBackgroundCleanup.  The part after
\* the sweep: s1 is the state the sweep left.
RescheduleIfSooner(s1, ts, t) ==
    LET nextExpiry == IF HeapSize(s1.heap) > 0 THEN s1.nodes[HeapPeek(s1.heap)].expiresAt ELSE 0
        timeUntilExpiry == nextExpiry - t
    IN  [st |-> s1,
         ts |-> IF /\ HeapSize(s1.heap) > 0
                   /\ nextExpiry # 0
                   /\ timeUntilExpiry > 0
                   /\ timeUntilExpiry < cleanupInterval
                THEN ScheduleNextCleanup(ts, timeUntilExpiry + BUFFER_MS, t)
                ELSE ts]

\* cleanExpired() reads the clock (t1), the test after it reads it again (t2).
IntervalCallback(st, ts, t1, t2) == RescheduleIfSooner(CleanExpired(st, t1).st, ts, t2)

\* How far the clock advances between the two readings of the callback.
CallbackLapses == {0, CLOCK_STEP}

\* An armed interval comes due: the host arms it for the next period,
\* counted from the start of the callback, and runs the callback (which may
\* clear it).  The clock does not pass `limit`.
FireIntervalBy(tm, limit) ==
    /\ tm \in timers
    /\ tm.kind = "interval"
    /\ now >= tm.due
    /\ \E lapse \in CallbackLapses :
        /\ now + lapse <= limit
        /\ now' = now + lapse
        /\ ReturnState("interval", NoArgs, "none", RetVoid,
                       IntervalCallback(Cur, Rearmed(tm), now, now + lapse).st,
                       IntervalCallback(Cur, Rearmed(tm), now, now + lapse).ts)

FireInterval(tm) == FireIntervalBy(tm, MaxClockSteps * CLOCK_STEP)

\* The callback of setTimeout in scheduleNextCleanup.
TimeoutCallback(st, ts, t) ==
    [st |-> CleanExpired(st, t).st, ts |-> StartBackgroundCleanup(ts, t)]

\* An armed one-shot comes due: it is disarmed and its callback runs.
FireTimeout(tm) ==
    /\ tm \in timers
    /\ tm.kind = "timeout"
    /\ now >= tm.due
    /\ LET r == TimeoutCallback(Cur, [cleanupTimer |-> cleanupTimer, timers |-> timers \ {tm}], now)
       IN  Return("timeout", NoArgs, "none", RetVoid, r.st, r.ts)

\* Time passes, up to the clock reading `limit`.
Advance(limit) ==
    /\ now < limit
    /\ now' = now + CLOCK_STEP
    /\ last' = [op |-> "tick", args |-> NoArgs, ret |-> RetVoid, at |-> "none", removed |-> {}]
    /\ UNCHANGED <<maxSize, cleanupInterval, autoCleanup, cache, head, tail, heap, nodes,
                   cleanupTimer, timers>>

Tick == Advance(MaxClockSteps * CLOCK_STEP)

TickManual == Advance(ManualClockSteps * CLOCK_STEP)

\* The value stored by the calls of Spec, which is about sizes and timers.
OneValue == {1}

Next ==
    \/ \E k \in ValidKeyArgs : DoGet(k)
    \/ \E k \in ValidKeyArgs, v \in OneValue, t \in ValidTtlArgs : DoSet(k, v, t)
    \/ \E k \in ValidKeyArgs : DoDelete(k)
    \/ \E t \in CleanTimes : DoCleanExpired(t)
    \/ DoClear
    \/ DoDestroy
    \/ \E tm \in timers : FireInterval(tm)
    \/ \E tm \in timers : FireTimeout(tm)
    \/ Tick

\* A cache with or without background cleanup, storing one value.
Spec == Init /\ [][Next]_vars

NextManual ==
    \/ \E k \in ValidKeyArgs : DoGet(k)
    \/ \E k \in ValidKeyArgs, v \in Values, t \in ValidTtlArgs : DoSet(k, v, t)
    \/ \E k \in ValidKeyArgs : DoDelete(k)
    \/ \E t \in CleanTimes : DoCleanExpired(t)
    \/ DoClear
    \/ DoDestroy
    \/ TickManual

\* A cache without background cleanup: no timer is ever armed.
SpecManual == InitManual /\ [][NextManual]_vars

\* new LRUCache(MaxCap + 1, {autoCleanup: false}): room for a node between
\* the head and the tail of the recency list.
InitWide == Constructed(MaxCap + 1, 0, FALSE)

NextWide ==
    \/ \E k \in ValidKeyArgs : DoGet(k)
    \/ \E k \in ValidKeyArgs, v \in OneValue, t \in ValidTtlArgs : DoSet(k, v, t)
    \/ \E k \in ValidKeyArgs : DoDelete(k)
    \/ \E t \in CleanTimes : DoCleanExpired(t)
    \/ DoClear
    \/ DoDestroy
    \/ TickManual

SpecWide == InitWide /\ [][NextWide]_vars

\* A cache with background cleanup left to the timers: the host writes
\* entries and may clear the cache, the clock advances and armed timers
\* fire when due.  Entries
\* are written early enough for an armed interval, and a one-shot it may
\* schedule, to come due before the clock stops.
LiveHorizon == LiveClockSteps * CLOCK_STEP

InitLive == Constructed(MaxCap, CLOCK_STEP, TRUE)

SetInTime(keyArg, value, ttlArg) ==
    /\ now + ttlArg.n + cleanupInterval + BUFFER_MS <= LiveHorizon
    /\ DoSet(keyArg, value, ttlArg)

TickLive == Advance(LiveHorizon)

FireIntervalLive(tm) == FireIntervalBy(tm, LiveHorizon)

NextLive ==
    \/ \E k \in ValidKeyArgs, v \in OneValue, t \in ValidTtlArgs : SetInTime(k, v, t)
    \/ DoClear
    \/ \E tm \in timers : FireIntervalLive(tm)
    \/ \E tm \in timers : FireTimeout(tm)
    \/ TickLive

\* A timer of the kind is armed and due: its firing is enabled.
IntervalDue == \E tm \in timers : tm.kind = "interval" /\ now >= tm.due

TimeoutDue == \E tm \in timers : tm.kind = "timeout" /\ now >= tm.due

\* Weak fairness of the firings, with the enabling condition written out:
\* a timer that stays due is run by the host's event loop.
FairFires ==
    /\ (<>[]IntervalDue) => []<><<\E tm \in timers : FireIntervalLive(tm)>>_vars
    /\ (<>[]TimeoutDue) => []<><<\E tm \in timers : FireTimeout(tm)>>_vars

\* Time passes and the host's event loop runs every timer that is due.
SpecLive ==
    /\ InitLive
    /\ [][NextLive]_vars
    /\ WF_vars(TickLive)
    /\ FairFires

\* A cache without background cleanup, built from any maxSize and called
\* with any key and ttlMs arguments.
InitInputs == \E sizeArg \in SizeArgs : NewCache(sizeArg, [kind |-> "omitted", n |-> 0])

NextInputs ==
    /\ Built
    /\ \/ \E k \in KeyArgs : DoGet(k)
       \/ \E k \in KeyArgs, v \in OneValue, t \in TtlArgs : DoSet(k, v, t)
       \/ \E k \in ValidKeyArgs : DoDelete(k)
       \/ TickManual

SpecInputs == InitInputs /\ [][NextInputs]_vars

\* A cache of capacity 1 without background cleanup, built with any
\* cleanupInterval option.
InitOptions ==
    \E intervalArg \in IntervalArgs : NewCache([kind |-> "finite", halves |-> 2], intervalArg)

NextOptions ==
    /\ Built
    /\ \/ \E k \in ValidKeyArgs : DoGet(k)
       \/ \E k \in ValidKeyArgs, v \in OneValue, t \in ValidTtlArgs : DoSet(k, v, t)
       \/ \E t \in CleanTimes : DoCleanExpired(t)
       \/ TickManual

SpecOptions == InitOptions /\ [][NextOptions]_vars

----------------------------------------------------------------------------
(* The MinHeap object on its own: any sequence of the calls that LRUCache   *)
(* makes on it (insert for a new key, remove for delete and for an expired  *)
(* get, extractMin for a sweep or an eviction, remove then insert for an    *)
(* update), on up to MaxHeap nodes.  The fields of the cache stay as        *)
(* constructed; a new node takes the first free slot of the arena.          *)

HeapRefs == 1 .. MaxHeap

HeapNodes(h) == {h[i] : i \in 1 .. Len(h)}

CurHeap == [heap |-> heap, nodes |-> nodes]

FreeRef ==
    CHOOSE r \in HeapRefs :
        r \notin HeapNodes(heap) /\ \A q \in 1 .. r - 1 : q \in HeapNodes(heap)

\* Where the node is in the array before remove(node): last, root, or an
\* inner position; "rises" is an inner position where the last node, which
\* takes the place, is smaller than the parent there.
HeapPlace(hs, node) ==
    LET idx == hs.nodes[node].heapIndex
        lastIdx == Len(hs.heap) - 1
    IN  IF idx = lastIdx THEN "last"
        ELSE IF idx = 0 THEN "root"
        ELSE IF hs.nodes[hs.heap[lastIdx + 1]].expiresAt
                    < hs.nodes[hs.heap[(idx - 1) \div 2 + 1]].expiresAt
        THEN "rises"
        ELSE "inner"

HeapReturn(op, at, ret, hs) ==
    /\ heap' = hs.heap
    /\ nodes' = [r \in HeapNodes(hs.heap) |-> hs.nodes[r]]
    /\ last' = [op |-> op, args |-> NoArgs, ret |-> ret, at |-> at, removed |-> {}]
    /\ UNCHANGED <<maxSize, cleanupInterval, autoCleanup, cache, head, tail,
                   cleanupTimer, timers, now>>

\* expiryHeap.insert(new Node(key, value, now + ttlMs))
HeapDoInsert(ttlArg) ==
    /\ Len(heap) < MaxHeap
    /\ LET node == FreeRef
           made == (node :> NewNode(KeyName[node], 1, ExpiryOf(now, ttlArg.n))) @@ nodes
       IN  HeapReturn("heap.insert", "none", RetVoid, HeapInsert([heap |-> heap, nodes |-> made], node))

\* expiryHeap.remove(node)
HeapDoRemove(node) ==
    HeapReturn("heap.remove", HeapPlace(CurHeap, node), RetVoid, HeapRemove(CurHeap, node))

\* expiryHeap.extractMin(): returns the node it took from the root, or null
\* from an empty heap.
HeapDoExtractMin ==
    HeapReturn("heap.extractMin", IF Len(heap) = 0 THEN "none" ELSE "root",
               RetNode(HeapExtractMin(CurHeap).node), HeapExtractMin(CurHeap).hs)

\* The three statements of set for a key that is in the index:
\* expiryHeap.remove(node); node.expiresAt = expiresAt; expiryHeap.insert(node)
Reinsert(hs, node, expiresAt) ==
    HeapInsert([hs EXCEPT !.nodes[node].expiresAt = expiresAt], node)

HeapDoUpdate(node, ttlArg) ==
    HeapReturn("heap.update", HeapPlace(CurHeap, node), RetVoid,
               Reinsert(HeapRemove(CurHeap, node), node, ExpiryOf(now, ttlArg.n)))

InitHeap == Constructed(MaxCap, 0, FALSE)

NextHeap ==
    \/ \E t \in ValidTtlArgs : HeapDoInsert(t)
    \/ \E r \in HeapNodes(heap) : HeapDoRemove(r)
    \/ HeapDoExtractMin
    \/ \E r \in HeapNodes(heap), t \in ValidTtlArgs : HeapDoUpdate(r, t)

SpecHeap == InitHeap /\ [][NextHeap]_vars

----------------------------------------------------------------------------
(* removeFromList as an operation of its own: set, get and delete on a     *)
(* cache of capacity MaxCap + 1, and removeFromList applied to a node that  *)
(* is not linked (prev and next null, not in the index, the list or the     *)
(* heap), as `new Node` makes it.                                           *)

DoRemoveFromList(key) ==
    /\ key \notin DOMAIN cache
    /\ LET node == NewRef(Cur, key)
           detached == [Cur EXCEPT !.nodes = (node :> NewNode(key, 1, now)) @@ nodes]
       IN  Return("removeFromList", KeyOnly([isString |-> TRUE, str |-> key]), "none", RetVoid,
                  RemoveFromList(detached, node), CurTimers)

NextUnlink ==
    \/ \E k \in ValidKeyArgs, v \in OneValue, t \in ValidTtlArgs : DoSet(k, v, t)
    \/ \E k \in ValidKeyArgs : DoGet(k)
    \/ \E k \in ValidKeyArgs : DoDelete(k)
    \/ \E k \in Keys : DoRemoveFromList(k)

SpecUnlink == InitWide /\ [][NextUnlink]_vars

----------------------------------------------------------------------------
(* Shape of the state *)

TypeOK ==
    /\ maxSize \in 0 .. MaxCap + 1
    /\ DOMAIN cache \subseteq Keys
    /\ head \in DOMAIN nodes \cup {NULL}
    /\ tail \in DOMAIN nodes \cup {NULL}
    /\ last.op \in {"new", "get", "set", "delete", "cleanExpired", "clear", "destroy",
                    "interval", "timeout", "tick",
                    "heap.insert", "heap.remove", "heap.extractMin", "heap.update",
                    "removeFromList"}

----------------------------------------------------------------------------
(* Observations *)

LiveAt(st, t) == {k \in DOMAIN st.cache : st.nodes[st.cache[k]].expiresAt > t}

ExpiredAt(st, t) == {k \in DOMAIN st.cache : st.nodes[st.cache[k]].expiresAt <= t}

\* The nodes met from `node` on by following next, at most `fuel` of them.
RECURSIVE ListFrom(_, _, _)
ListFrom(st, node, fuel) ==
    IF node = NULL \/ fuel = 0
    THEN <<>>
    ELSE <<node>> \o ListFrom(st, st.nodes[node].next, fuel - 1)

ListOf(st) == ListFrom(st, st.head, NumKeys + 1)

SeqRange(q) == {q[i] : i \in 1 .. Len(q)}

ExpiryOfKey(st, k) == st.nodes[st.cache[k]].expiresAt

ValueOfKey(st, k) == st.nodes[st.cache[k]].value

\* Every entry of st2 is an entry of st1 with the same node, value and expiry.
EntriesKept(st1, st2) ==
    \A k \in DOMAIN st2.cache :
        /\ k \in DOMAIN st1.cache
        /\ st2.cache[k] = st1.cache[k]
        /\ ValueOfKey(st2, k) = ValueOfKey(st1, k)
        /\ ExpiryOfKey(st2, k) = ExpiryOfKey(st1, k)

\* Clock readings at which the effect of a call is observed
ProbeTimes == {now + i * TTL_STEP : i \in -1 .. MaxTtlSteps + 1}

\* The step is the call of `op` that last' records.
Called(op) == last'.op = op

----------------------------------------------------------------------------
(* C1: for a cache constructed with an integer maxSize >= 1, size() is at   *)
(* most maxSize after every call of set, get, delete, cleanExpired, clear   *)
(* and after every firing of the background cleanup.                        *)

CapacityInvariant == Size(Cur) <= maxSize

\* A set that found the cache full has returned and the cache is full again.
CapacityWitness ==
    /\ last.op = "set"
    /\ last.at = "none"
    /\ last.removed # {}
    /\ Size(Cur) = maxSize

----------------------------------------------------------------------------
(* C2: a set of a new key into a cache that holds maxSize entries, none of  *)
(* them expired, removes exactly one entry; the entry removed is the one    *)
(* at the root of the heap and its expiresAt is the minimum over all        *)
(* entries, wherever it stands in the recency list.                         *)

EvictsMinExpiry ==
    [][(/\ Called("set")
        /\ ~Has(Cur, last'.args.key)
        /\ Size(Cur) = maxSize
        /\ ExpiredAt(Cur, now) = {})
        => \E victim \in DOMAIN cache :
            /\ DOMAIN cache' = (DOMAIN cache \ {victim}) \cup {last'.args.key.str}
            /\ victim = nodes[HeapPeek(heap)].key
            /\ \A other \in DOMAIN cache : ExpiryOfKey(Cur, victim) <= ExpiryOfKey(Cur, other)
            /\ \A other \in DOMAIN cache \ {victim} : cache'[other] = cache[other]]_vars

\* A set has evicted one unexpired entry and left a later-expiring one that
\* is the tail (least recently used) of the list.
EvictsMinExpiryWitness ==
    /\ last.op = "set"
    /\ last.at = "none"
    /\ Cardinality(last.removed) = 1
    /\ \A n \in last.removed : n.expiresAt > now
    /\ Size(Cur) = maxSize
    /\ Size(Cur) >= 2
    /\ \A n \in last.removed : nodes[tail].expiresAt > n.expiresAt

----------------------------------------------------------------------------
(* C3: get(k) for a key in the index whose expiry has been reached          *)
(* (now >= expiresAt) returns null and removes exactly that entry: size()   *)
(* goes down by one and every other entry stays, with no background         *)
(* cleanup and no cleanExpired call needed.                                 *)

LazyExpiration ==
    [][(/\ Called("get")
        /\ Has(Cur, last'.args.key)
        /\ now >= ExpiryOfKey(Cur, last'.args.key.str))
        => /\ last'.ret = RetNull
           /\ DOMAIN cache' = DOMAIN cache \ {last'.args.key.str}
           /\ Size(Cur') = Size(Cur) - 1
           /\ EntriesKept(Cur, Cur')]_vars

\* A get has returned null and dropped its expired entry, while another
\* expired entry is still in the index and no timer is armed.
LazyExpirationWitness ==
    /\ last.op = "get"
    /\ last.ret = RetNull
    /\ last.at # "none"
    /\ Cardinality(last.removed) = 1
    /\ \A n \in last.removed : n.expiresAt <= now /\ n.key = last.args.key.str
    /\ ExpiredAt(Cur, now) # {}
    /\ ~autoCleanup
    /\ timers = {}

----------------------------------------------------------------------------
(* C4: after set(k, v, ttl) at clock reading now, from any state, k is in   *)
(* the index and a get(k) at any clock reading below now + ttl returns v.   *)

SetGetRoundTrip ==
    [][Called("set")
        => /\ Has(Cur', last'.args.key)
           /\ \A u \in ProbeTimes :
                (u >= now /\ u < now + last'.args.ttl.n)
                    => Get(Cur', last'.args.key, u).ret = last'.args.value]_vars

\* A set into a full cache of capacity 1 has evicted the old entry, and the
\* new entry is the one the cache holds and returns.
SetGetRoundTripWitness ==
    /\ last.op = "set"
    /\ last.at = "none"
    /\ last.removed # {}
    /\ maxSize = 1
    /\ Size(Cur) = 1
    /\ \A n \in last.removed : n.key # last.args.key.str
    /\ Get(Cur, last.args.key, now).ret = last.args.value

----------------------------------------------------------------------------
(* C5: set on a key that is in the index stores the new value, leaves       *)
(* size() as it was and removes no entry: neither a sweep of expired        *)
(* entries nor an eviction happens, also in a full cache.                   *)

UpdateRemovesNothing ==
    [][(Called("set") /\ Has(Cur, last'.args.key))
        => /\ cache' = cache
           /\ Size(Cur') = Size(Cur)
           /\ ValueOfKey(Cur', last'.args.key.str) = last'.args.value
           /\ last'.removed = {}
           /\ \A other \in DOMAIN cache \ {last'.args.key.str} :
                /\ ValueOfKey(Cur', other) = ValueOfKey(Cur, other)
                /\ ExpiryOfKey(Cur', other) = ExpiryOfKey(Cur, other)]_vars

\* An update in a full cache has returned and an expired entry is still there.
UpdateRemovesNothingWitness ==
    /\ last.op = "set"
    /\ last.at # "none"
    /\ last.removed = {}
    /\ Size(Cur) = maxSize
    /\ ExpiredAt(Cur, now) # {}

----------------------------------------------------------------------------
(* C6: set(k, v, ttl) on an existing key at clock reading now makes         *)
(* now + ttl the expiry of the entry, and get, cleanExpired and eviction    *)
(* go by the new expiry alone: get returns v below it and null from it on,  *)
(* cleanExpired(u) removes the entry exactly when u has reached it, and     *)
(* the entry is the heap minimum (the next victim) when its new expiry is   *)
(* the smallest, and not when another entry expires earlier.                *)

UpdateMovesExpiry ==
    [][(Called("set") /\ Has(Cur, last'.args.key))
        => LET k == last'.args.key
               e == now + last'.args.ttl.n
               others == DOMAIN cache \ {k.str}
           IN  /\ ExpiryOfKey(Cur', k.str) = e
               /\ \A u \in ProbeTimes :
                    /\ Get(Cur', k, u).ret = IF u < e THEN last'.args.value ELSE NULL
                    /\ Has(CleanExpired(Cur', u).st, k) <=> (u < e)
               /\ (\A o \in others : ExpiryOfKey(Cur, o) > e)
                    => (HeapPeek(heap') = cache[k.str] /\ ~Has(Evict(Cur', now), k))
               /\ (\E o \in others : ExpiryOfKey(Cur, o) < e)
                    => (HeapPeek(heap') # cache[k.str] /\ Has(Evict(Cur', now), k))]_vars

\* An update of the least recently used entry has returned: the entry is the
\* head of the list and has become the heap minimum, expiring before the
\* other entries.
UpdateMovesExpiryWitness ==
    /\ last.op = "set"
    /\ last.at = "tail"
    /\ Size(Cur) >= 2
    /\ HeapPeek(heap) = head
    /\ \A o \in DOMAIN cache : cache[o] # head => ExpiryOfKey(Cur, o) > nodes[head].expiresAt

----------------------------------------------------------------------------
(* C7: delete(k) returns true exactly when k is in the index; it then       *)
(* takes size() down by one, a following get(k) returns null, and every     *)
(* other entry keeps its node, value and expiry, whether k was the head,    *)
(* the tail or in the middle of the recency list.                           *)

DeleteRemovesOne ==
    [][Called("delete")
        => LET k == last'.args.key
           IN  /\ last'.ret = RetBool(Has(Cur, k))
               /\ Has(Cur, k)
                    => /\ Size(Cur') = Size(Cur) - 1
                       /\ DOMAIN cache' = DOMAIN cache \ {k.str}
                       /\ Get(Cur', k, now).ret = NULL
                       /\ EntriesKept(Cur, Cur')
                       /\ SeqRange(ListOf(Cur')) = Range(cache')
                       /\ SeqRange(heap') = Range(cache')]_vars

\* A delete of the middle node of a three-entry list has returned true.
DeleteRemovesOneWitness ==
    /\ last.op = "delete"
    /\ last.ret = RetBool(TRUE)
    /\ last.at = "middle"
    /\ Size(Cur) = 2

----------------------------------------------------------------------------
(* C8: delete(k) for a key that is not in the index returns false and       *)
(* changes nothing: index, recency list, heap, nodes and the cleanup timer  *)
(* stay as they are, and a second such call does the same.                  *)

DeleteAbsentChangesNothing ==
    [][(Called("delete") /\ ~Has(Cur, last'.args.key))
        => /\ last'.ret = RetBool(FALSE)
           /\ UNCHANGED <<cache, head, tail, heap, nodes, cleanupTimer, timers,
                          maxSize, cleanupInterval, autoCleanup, now>>
           /\ Delete(Cur', last'.args.key) = [st |-> Cur', ret |-> FALSE]]_vars

\* A delete has returned false on a cache that holds an entry and has a
\* cleanup timer armed.
DeleteAbsentWitness ==
    /\ last.op = "delete"
    /\ last.ret = RetBool(FALSE)
    /\ last.at = "none"
    /\ Size(Cur) >= 1
    /\ timers # {}

----------------------------------------------------------------------------
(* C9: cleanExpired(t) returns the number of entries that had               *)
(* expiresAt <= t before the call, and afterwards no node with              *)
(* expiresAt <= t is left in the index, the recency list or the heap; it    *)
(* returns 0 on an empty cache and when nothing is expired.                 *)

CleanExpiredCounts ==
    [][Called("cleanExpired")
        => LET t == last'.args.t
           IN  /\ last'.ret = RetNumber(Cardinality(ExpiredAt(Cur, t)))
               /\ ExpiredAt(Cur', t) = {}
               /\ \A n \in SeqRange(ListOf(Cur')) \cup SeqRange(heap') : nodes'[n].expiresAt > t
               /\ (Size(Cur) = 0 \/ ExpiredAt(Cur, t) = {}) => last'.ret = RetNumber(0)]_vars

\* A cleanExpired has removed an entry and left a later-expiring one.
CleanExpiredCountsWitness ==
    /\ last.op = "cleanExpired"
    /\ last.ret = RetNumber(1)
    /\ Cardinality(last.removed) = 1
    /\ \A n \in last.removed : n.expiresAt <= last.args.t
    /\ Size(Cur) >= 1

----------------------------------------------------------------------------
(* C10: a set of a new key at clock reading now removes an unexpired entry  *)
(* (expiresAt > now) only if the unexpired entries alone were already       *)
(* maxSize or more, and then it removes exactly one of them.                *)

SetPrefersExpired ==
    [][(Called("set") /\ ~Has(Cur, last'.args.key))
        => LET removedLive == LiveAt(Cur, now) \ DOMAIN cache'
           IN  removedLive # {}
                => /\ Cardinality(LiveAt(Cur, now)) >= maxSize
                   /\ Cardinality(removedLive) = 1]_vars

\* A set into a full cache has removed expired entries only: the entries it
\* left are unexpired and the cache is full again.
SetPrefersExpiredWitness ==
    /\ last.op = "set"
    /\ last.at = "none"
    /\ last.removed # {}
    /\ \A n \in last.removed : n.expiresAt <= now
    /\ maxSize >= 2
    /\ Size(Cur) = maxSize
    /\ ExpiredAt(Cur, now) = {}

----------------------------------------------------------------------------
(* C11: after clear(), from any reachable state, size() is 0, get returns   *)
(* null for every key, the recency list and the heap are empty, and a       *)
(* following set(k, v, ttl) then get(k) returns v with size() = 1.          *)

ClearResets ==
    [][Called("clear")
        => /\ Size(Cur') = 0
           /\ head' = NULL /\ tail' = NULL
           /\ ListOf(Cur') = <<>>
           /\ heap' = <<>>
           /\ \A k \in ValidKeyArgs : Get(Cur', k, now).ret = NULL
           /\ \A k \in ValidKeyArgs, v \in Values, ttl \in ValidTtlArgs :
                LET s == Set(Cur', k, v, ttl, now)
                IN  /\ s.ret = "ok"
                    /\ Get(s.st, k, now).ret = v
                    /\ Size(s.st) = 1]_vars

\* A clear of a full cache with background cleanup, which held an expired
\* and an unexpired entry, has returned.
ClearResetsWitness ==
    /\ last.op = "clear"
    /\ Cardinality(last.removed) = maxSize
    /\ \E n \in last.removed : n.expiresAt <= now
    /\ \E n \in last.removed : n.expiresAt > now
    /\ Size(Cur) = 0
    /\ autoCleanup

----------------------------------------------------------------------------
(* C12: after destroy() returns no cleanup task, interval or one-shot, is   *)
(* pending, with autoCleanup enabled as well as disabled.  The code does    *)
(* not do this: destroy() ends with clear(), and clear() starts a new       *)
(* interval when autoCleanup is enabled.                                    *)

NoTaskAfterDestroy == last.op = "destroy" => timers = {}

\* destroy() has returned on a cache with autoCleanup and an interval is armed.
TaskAfterDestroyWitness ==
    /\ last.op = "destroy"
    /\ autoCleanup
    /\ \E tm \in timers : tm.kind = "interval" /\ tm.id = cleanupTimer

----------------------------------------------------------------------------
(* C13: destroy() is idempotent: a second call raises no error and leaves   *)
(* the cache as the first call left it: size() is 0, the entries and the    *)
(* cleanup-task status (which tasks are armed, whether a handle is held)    *)
(* are the same.                                                            *)

\* Which cleanup tasks are armed and whether the cache holds a handle.
TaskStatus(ts) ==
    [count |-> Cardinality(ts.timers),
     armed |-> {<<tm.kind, tm.due>> : tm \in ts.timers},
     handle |-> ts.cleanupTimer # NULL]

DestroyIdempotent ==
    [][Called("destroy")
        => LET again == Destroy(Cur', CurTimers', now')
           IN  /\ last'.ret = RetVoid
               /\ Size(Cur') = 0
               /\ again.st = Cur'
               /\ TaskStatus(again.ts) = TaskStatus(CurTimers')]_vars

\* A destroy of a cache with background cleanup that held entries has
\* returned, after the clock has advanced.
DestroyIdempotentWitness ==
    /\ last.op = "destroy"
    /\ last.removed # {}
    /\ autoCleanup
    /\ now > 0
    /\ Size(Cur) = 0

----------------------------------------------------------------------------
(* C14: with autoCleanup enabled and the cache not destroyed, every entry   *)
(* whose expiry has passed is eventually out of the cache without any       *)
(* foreground call being needed, also an entry written after a one-shot     *)
(* cleanup has fired.  The code does not do this: the one-shot's callback   *)
(* calls startBackgroundCleanup() while cleanupTimer still holds the fired  *)
(* handle, so no interval is armed again.                                   *)

ExpiredEventuallyCleaned ==
    \A k \in Keys :
        (k \in DOMAIN cache /\ nodes[cache[k]].expiresAt <= now)
            ~> (k \notin DOMAIN cache \/ nodes[cache[k]].expiresAt > now)

\* The one-shot has fired, no task is armed and an entry written since
\* has expired.
NoTaskLeftWitness ==
    /\ autoCleanup
    /\ timers = {}
    /\ cleanupTimer # NULL
    /\ ExpiredAt(Cur, now) # {}

----------------------------------------------------------------------------
(* C15: with autoCleanup false no cleanup task is armed in any reachable    *)
(* state, and an expired entry stays in the index, counted by size(),       *)
(* until a get of its key, a set of a new key, a delete of its key, a       *)
(* clear (also the one destroy makes) or a cleanExpired call removes it.    *)

NoTaskWithoutAutoCleanup ==
    [][~autoCleanup
        => /\ timers = {} /\ cleanupTimer = NULL
           /\ timers' = {} /\ cleanupTimer' = NULL
           /\ \A k \in ExpiredAt(Cur, now) :
                \/ k \in DOMAIN cache' /\ Size(Cur') >= 1
                \/ Called("get") /\ last'.args.key.str = k
                \/ Called("set") /\ ~Has(Cur, last'.args.key)
                \/ Called("delete") /\ last'.args.key.str = k
                \/ Called("clear")
                \/ Called("destroy")
                \/ Called("cleanExpired")]_vars

\* The clock has advanced a full step beyond the expiry of an entry, which
\* is still in the index of a cache without a cleanup task.
NoTaskWitness ==
    /\ ~autoCleanup
    /\ last.op = "tick"
    /\ timers = {}
    /\ \E k \in DOMAIN cache : ExpiryOfKey(Cur, k) + CLOCK_STEP <= now
    /\ Size(Cur) = maxSize

----------------------------------------------------------------------------
(* C16: after clear() on a cache with autoCleanup enabled exactly one       *)
(* recurring cleanup task is pending, whatever the task status was before   *)
(* (interval armed, one-shot armed, one-shot fired): an interval due a      *)
(* full period after the call, whose handle the cache holds.  An entry set  *)
(* after the clear is cleaned by that task: when the interval fires, the    *)
(* entry is removed if it has expired by then.                              *)

ClearRearmsInterval ==
    [][(Called("clear") /\ autoCleanup)
        => /\ Cardinality(timers') = 1
           /\ \A tm \in timers' :
                /\ tm.kind = "interval"
                /\ tm.due = now + cleanupInterval
                /\ tm.id = cleanupTimer'
                /\ \A k \in ValidKeyArgs, v \in OneValue, ttl \in ValidTtlArgs :
                     LET written == Set(Cur', k, v, ttl, now).st
                         fired == IntervalCallback(written, CurTimers', tm.due, tm.due).st
                     IN  Has(fired, k) <=> (now + ttl.n > tm.due)]_vars

\* A clear has returned at a time when the one-shot cleanup has come due,
\* and an interval is armed.
ClearRearmsWitness ==
    /\ last.op = "clear"
    /\ autoCleanup
    /\ now >= 3 * CLOCK_STEP
    /\ \E tm \in timers : tm.kind = "interval" /\ tm.due = now + cleanupInterval

----------------------------------------------------------------------------
(* C17: set throws when key is empty or not a string, and when ttlMs is     *)
(* zero, negative, NaN or infinite; the error comes before any mutation,    *)
(* so index, recency list, heap, nodes and size() are as before the call,   *)
(* and the error depends on the arguments alone: the key error for a bad    *)
(* key, the ttlMs error for a good key with a bad ttlMs.                    *)

SetRejectsBadInput ==
    [][Called("set")
        => LET k == last'.args.key
               ttl == last'.args.ttl
               badKey == k \notin ValidKeyArgs
               badTtl == \/ ttl.kind \in {"nan", "inf", "-inf"}
                         \/ ttl.kind = "finite" /\ ttl.n <= 0
           IN  /\ badKey => last'.ret = RetError("key must be a non-empty string")
               /\ (~badKey /\ badTtl)
                    => last'.ret = RetError("ttlMs must be a positive finite number")
               /\ (~badKey /\ ~badTtl) => last'.ret = RetVoid
               /\ (badKey \/ badTtl)
                    => /\ UNCHANGED <<cache, head, tail, heap, nodes, maxSize, now>>
                       /\ Size(Cur') = Size(Cur)
                       /\ last'.removed = {}]_vars

\* A set with a ttlMs of zero has thrown on a full cache that holds an
\* expired entry, which is still there.
SetRejectsWitness ==
    /\ last.op = "set"
    /\ last.ret = RetError("ttlMs must be a positive finite number")
    /\ last.args.ttl = [kind |-> "finite", n |-> 0]
    /\ maxSize >= 1
    /\ Size(Cur) = maxSize
    /\ ExpiredAt(Cur, now) # {}

----------------------------------------------------------------------------
(* C18: the constructor throws 'maxSize must be a positive finite number'   *)
(* for a maxSize that is zero, negative, NaN or infinite, and for every     *)
(* other number it returns an empty cache: size() is 0.                     *)

ConstructorChecksMaxSize ==
    last.op = "new"
        => LET a == last.args.size
               bad == \/ a.kind \in {"nan", "inf", "-inf"}
                      \/ a.kind = "finite" /\ a.halves <= 0
           IN  /\ bad => last.ret = RetError("maxSize must be a positive finite number")
               /\ ~bad => /\ last.ret = RetVoid
                          /\ Size(Cur) = 0
                          /\ head = NULL /\ tail = NULL /\ heap = <<>>

\* new LRUCache(0.5) has returned an empty cache.
ConstructorAcceptsWitness ==
    /\ last.op = "new"
    /\ last.args.size = [kind |-> "finite", halves |-> 1]
    /\ last.ret = RetVoid
    /\ Size(Cur) = 0

----------------------------------------------------------------------------
(* C19: every maxSize that the constructor accepts gives a capacity that    *)
(* is a positive integer: the stored floor(maxSize) is at least 1, and      *)
(* size() never exceeds it, also for 1.5 and for numbers between 0 and 1.   *)
(* The code does not do this: it accepts 0.5 and stores the capacity 0,     *)
(* and the cache then holds one entry.                                      *)

CapacityPositive == Built => (maxSize >= 1 /\ Size(Cur) <= maxSize)

\* A cache built with maxSize 0.5 holds an entry: size() is 1, the stored
\* capacity is 0.
CapacityZeroWitness ==
    /\ Built
    /\ maxSize = 0
    /\ Size(Cur) = 1
    /\ last.op = "set"
    /\ last.ret = RetVoid

----------------------------------------------------------------------------
(* C20: the constructor validates its options: a cleanupInterval that is    *)
(* negative, zero, NaN or infinite makes it throw, and only a positive      *)
(* finite interval, or none, gives a cache.  The code does not do this: it  *)
(* never tests cleanupInterval; zero and NaN are replaced by the default    *)
(* and a negative or infinite interval is stored as given.                  *)

IntervalValidated ==
    last.op = "new"
        => LET i == last.args.interval
               bad == \/ i.kind \in {"nan", "inf", "-inf"}
                      \/ i.kind = "finite" /\ i.n <= 0
           IN  bad <=> last.ret.type = "error"

\* A cache built with cleanupInterval -5 stores that interval and takes a
\* set.
IntervalUncheckedWitness ==
    /\ Built
    /\ cleanupInterval < 0
    /\ last.op = "set"
    /\ Size(Cur) = 1

----------------------------------------------------------------------------
(* C21: get called with an empty string or with a non-string key raises     *)
(* an error, as set does, instead of returning a miss.  The code does not   *)
(* do this: get looks the key up in the Map without testing it and          *)
(* returns null.                                                            *)

GetRejectsBadKey ==
    [][(/\ Called("get")
        /\ (~last'.args.key.isString \/ last'.args.key.str = ""))
        => last'.ret.type = "error"]_vars

\* A get with an empty or non-string key has returned null while the cache
\* holds an entry.
GetBadKeyMissWitness ==
    /\ last.op = "get"
    /\ (~last.args.key.isString \/ last.args.key.str = "")
    /\ last.ret = RetNull
    /\ Size(Cur) >= 1

----------------------------------------------------------------------------
(* C22: an entry whose expiry has been reached but that is still in the     *)
(* index looks to callers like no entry: get(k), the boolean of delete(k),  *)
(* size(), the count of cleanExpired and the unexpired entries left by a    *)
(* following set are the same in the state that holds the entry and in the  *)
(* state without it.  The code does not do this: delete, size and           *)
(* cleanExpired do not test the expiry of what they find.                   *)

\* The state that differs from st only in holding no entry for k.
WithoutEntry(st, k) == RemoveNode(st, st.cache[k])

\* The unexpired keys that set(k2, 1, TTL_STEP) at clock t leaves.
LiveAfterSet(st, k2, t) ==
    LiveAt(Set(st, [isString |-> TRUE, str |-> k2], 1,
               [kind |-> "finite", n |-> TTL_STEP], t).st, t)

\* What a caller can observe about key k at clock t.
Observations(st, k, t) ==
    [get |-> Get(st, [isString |-> TRUE, str |-> k], t).ret,
     delete |-> Delete(st, [isString |-> TRUE, str |-> k]).ret,
     size |-> Size(st),
     cleaned |-> CleanExpired(st, t).count,
     afterSet |-> [k2 \in Keys |-> LiveAfterSet(st, k2, t)]]

ExpiredLooksMissing ==
    \A k \in DOMAIN cache :
        now >= ExpiryOfKey(Cur, k)
            => Observations(Cur, k, now) = Observations(WithoutEntry(Cur, k), k, now)

(* C22, as the code has it: the expired entry looks like a missing one to   *)
(* get(k), which returns null, and to a following set, which leaves the     *)
(* same unexpired entries; until it is swept size() counts it, delete(k)    *)
(* returns true for it and cleanExpired counts it.                          *)

ExpiredLooksMissingToGet ==
    \A k \in DOMAIN cache :
        now >= ExpiryOfKey(Cur, k)
            => LET with == Observations(Cur, k, now)
                   without == Observations(WithoutEntry(Cur, k), k, now)
               IN  /\ with.get = NULL
                   /\ without.get = NULL
                   /\ with.afterSet = without.afterSet
                   /\ with.size = without.size + 1
                   /\ with.delete
                   /\ ~without.delete
                   /\ with.cleaned = without.cleaned + 1

\* An expired entry is in the index next to an unexpired one.
ExpiredVisibleWitness ==
    /\ ExpiredAt(Cur, now) # {}
    /\ LiveAt(Cur, now) # {}
    /\ \E k \in ExpiredAt(Cur, now) :
        /\ Size(Cur) = Size(WithoutEntry(Cur, k)) + 1
        /\ Delete(Cur, [isString |-> TRUE, str |-> k]).ret
        /\ Get(Cur, [isString |-> TRUE, str |-> k], now).ret = NULL

----------------------------------------------------------------------------
(* C23: after any sequence of set (insert and update), get, delete,         *)
(* cleanExpired, eviction and clear, the heap's peek() is undefined         *)
(* exactly when the cache is empty, and otherwise it is a node of the       *)
(* index whose expiresAt is the minimum over all entries of the index.      *)

PeekIsMinimum ==
    IF Size(Cur) = 0
    THEN HeapPeek(heap) = NULL
    ELSE /\ HeapPeek(heap) # NULL
         /\ HeapPeek(heap) \in Range(cache)
         /\ \A k \in DOMAIN cache : nodes[HeapPeek(heap)].expiresAt <= ExpiryOfKey(Cur, k)

\* An update of one of three entries has returned; the updated entry was
\* the only one with the smallest expiry and another entry is the root now.
PeekIsMinimumWitness ==
    /\ last.op = "set"
    /\ last.at # "none"
    /\ Size(Cur) = MaxCap + 1
    /\ HeapPeek(heap) # cache[last.args.key.str]
    /\ \A k \in DOMAIN cache \ {last.args.key.str} :
        ExpiryOfKey(Cur, k) < ExpiryOfKey(Cur, last.args.key.str)
    /\ \E k \in DOMAIN cache : ExpiryOfKey(Cur, k) > nodes[HeapPeek(heap)].expiresAt

----------------------------------------------------------------------------
(* C24: the recency list is ordered by last successful touch.  A get that   *)
(* returns a value and a set that returns put the entry of their key at     *)
(* the head, and every step keeps the other stored entries in the order     *)
(* they had: so in every reachable state the order from head to tail is     *)
(* the order of the most recent successful get or set of each stored key,   *)
(* newest first.                                                            *)

\* The keys of the recency list from head to tail.
KeyList(st) == [i \in 1 .. Len(ListOf(st)) |-> st.nodes[ListOf(st)[i]].key]

\* The keys of the sequence q that are in the set S, in the order of q.
Restrict(q, S) == LET Kept(k) == k \in S IN SelectSeq(q, Kept)

RecencyOrder ==
    [][LET key == last'.args.key.str
           touched == \/ Called("get") /\ last'.ret.type = "value"
                      \/ Called("set") /\ last'.ret = RetVoid
       IN  IF touched
           THEN /\ head' = cache'[key]
                /\ KeyList(Cur') = <<key>> \o Restrict(KeyList(Cur), DOMAIN cache' \ {key})
           ELSE KeyList(Cur') = Restrict(KeyList(Cur), DOMAIN cache')]_vars

\* A get has returned the value of the entry that was the tail of a list of
\* three and the entry is the head now.
RecencyOrderWitness ==
    /\ last.op = "get"
    /\ last.ret.type = "value"
    /\ last.at = "tail"
    /\ Size(Cur) = MaxCap + 1
    /\ head = cache[last.args.key.str]
    /\ Len(KeyList(Cur)) = MaxCap + 1

----------------------------------------------------------------------------
(* C25: in every reachable state the index, the recency list and the heap   *)
(* hold the same nodes: the nodes of the index, the nodes met from head by  *)
(* following next (ending at tail) and the nodes of the heap array are the  *)
(* same set, no node and no key occurs twice in any of them, and size() is  *)
(* their common number; also in the states between a foreground call and    *)
(* a firing of the background cleanup.                                      *)

StructuresAgree ==
    /\ SeqRange(ListOf(Cur)) = Range(cache)
    /\ SeqRange(heap) = Range(cache)
    /\ Len(ListOf(Cur)) = Size(Cur)
    /\ Len(heap) = Size(Cur)
    /\ Cardinality(Range(cache)) = Size(Cur)
    /\ \A k \in DOMAIN cache : nodes[cache[k]].key = k
    /\ IF Size(Cur) = 0
       THEN head = NULL /\ tail = NULL
       ELSE /\ ListOf(Cur)[Size(Cur)] = tail
            /\ nodes[tail].next = NULL
            /\ nodes[head].prev = NULL

\* A firing of the interval has swept an expired entry and left another
\* entry in the three structures.
StructuresAgreeWitness ==
    /\ last.op = "interval"
    /\ last.removed # {}
    /\ Size(Cur) >= 1
    /\ Len(heap) = Size(Cur)
    /\ timers # {}

----------------------------------------------------------------------------
(* C26: in every reachable state the heap array is a binary min-heap on     *)
(* expiresAt: every node at a position i > 0 has an expiresAt not below     *)
(* that of the node at position floor((i - 1) / 2).  insert, extractMin,    *)
(* remove from the root, from the last position and from an inner           *)
(* position, and the remove-then-insert of an update all restore it.        *)

HeapOrdered ==
    \A i \in 1 .. Len(heap) - 1 :
        nodes[heap[i + 1]].expiresAt >= nodes[heap[(i - 1) \div 2 + 1]].expiresAt

\* A node has been removed from an inner position of a heap of MaxHeap
\* nodes where the node that took its place had to move up.
HeapOrderedWitness ==
    /\ last.op = "heap.remove"
    /\ last.at = "rises"
    /\ Len(heap) = MaxHeap - 1
    /\ \E i \in 1 .. Len(heap) - 1 :
        nodes[heap[i + 1]].expiresAt > nodes[heap[1]].expiresAt

----------------------------------------------------------------------------
(* C27: at most one cleanup task is pending at any time: in no reachable    *)
(* state are an interval and a one-shot timeout, or two of either, both     *)
(* armed, and the task that is armed is the one cleanupTimer holds.  A      *)
(* reschedule cancels the interval before it arms the one-shot; clear and   *)
(* destroy cancel what is armed before they arm anything new.               *)

AtMostOneTask ==
    /\ Cardinality(timers) <= 1
    /\ \A tm \in timers : tm.id = cleanupTimer

\* The interval callback has rescheduled: the one-shot is the only task.
AtMostOneTaskWitness ==
    /\ last.op = "interval"
    /\ \E tm \in timers : tm.kind = "timeout" /\ timers = {tm}

----------------------------------------------------------------------------
(* C28: when a one-shot cleanup fires, it runs cleanExpired and then        *)
(* resumes the regular interval: after its callback returns no entry that   *)
(* has expired is left and a recurring cleanup task is pending again.  The  *)
(* code does the sweep but arms nothing: startBackgroundCleanup() returns   *)
(* at its guard, since cleanupTimer still holds the handle of the one-shot  *)
(* that is firing.                                                          *)

OneShotResumesInterval ==
    [][Called("timeout")
        => /\ ExpiredAt(Cur', now') = {}
           /\ \E tm \in timers' : tm.kind = "interval" /\ tm.id = cleanupTimer']_vars

\* The one-shot's callback has returned: the sweep is done, the handle of
\* the fired one-shot is still held and no task is pending.
OneShotLeavesNoTask ==
    /\ last.op = "timeout"
    /\ autoCleanup
    /\ ExpiredAt(Cur, now) = {}
    /\ cleanupTimer # NULL
    /\ timers = {}

----------------------------------------------------------------------------
(* C29: when the recurring cleanup fires, after its sweep it replaces       *)
(* itself by a one-shot cleanup if and only if the cache is not empty and   *)
(* the smallest remaining expiry lies strictly between now and now +        *)
(* cleanupInterval; the one-shot is armed for (that expiry - now) + 10 ms,  *)
(* so it fires no earlier than the expiry; otherwise the recurring task     *)
(* stays armed, with the same handle, for the next period.  The sweep       *)
(* reads the clock when the callback starts; "now" of the test is the       *)
(* reading the callback takes after the sweep, which may be later.          *)

\* The smallest expiresAt among the entries of a non-empty cache.
SoonestExpiry(st) ==
    CHOOSE e \in {ExpiryOfKey(st, k) : k \in DOMAIN st.cache} :
        \A k \in DOMAIN st.cache : e <= ExpiryOfKey(st, k)

ExpirySoon(st, t) ==
    /\ DOMAIN st.cache # {}
    /\ t < SoonestExpiry(st)
    /\ SoonestExpiry(st) < t + cleanupInterval

IntervalReschedules ==
    [][Called("interval")
        => /\ DOMAIN cache' = DOMAIN cache \ ExpiredAt(Cur, now)
           /\ IF ExpirySoon(Cur', now')
              THEN /\ timers' = {[id |-> cleanupTimer', kind |-> "timeout",
                                  due |-> SoonestExpiry(Cur') + 10]}
                   /\ \A tm \in timers' : tm.due >= SoonestExpiry(Cur')
              ELSE /\ cleanupTimer' = cleanupTimer
                   /\ timers' = {[id |-> cleanupTimer, kind |-> "interval",
                                  due |-> now + cleanupInterval]}]_vars

\* The interval has swept an expired entry and, with another entry due
\* before the next period, has replaced itself by a one-shot.
IntervalReschedulesWitness ==
    /\ last.op = "interval"
    /\ ExpirySoon(Cur, now)
    /\ \E tm \in timers : tm.kind = "timeout" /\ tm.due = SoonestExpiry(Cur) + 10
    /\ last.removed # {}

----------------------------------------------------------------------------
(* C30: cleanExpired(t) removes no entry with expiresAt > t: every such     *)
(* entry keeps its value, its expiry and its place relative to the other    *)
(* entries that stay in the recency order, and the sweep stops at the       *)
(* first heap minimum that is not expired, so that the heap it leaves is    *)
(* empty or has an unexpired node at its root.                              *)

UnexpiredAt(st, t) == DOMAIN st.cache \ ExpiredAt(st, t)

SweepKeepsUnexpired ==
    [][Called("cleanExpired")
        => LET t == last'.args.t
           IN  /\ DOMAIN cache' = UnexpiredAt(Cur, t)
               /\ \A k \in UnexpiredAt(Cur, t) :
                    /\ nodes'[cache'[k]].value = nodes[cache[k]].value
                    /\ ExpiryOfKey(Cur', k) = ExpiryOfKey(Cur, k)
               /\ KeyList(Cur') = Restrict(KeyList(Cur), UnexpiredAt(Cur, t))
               /\ Len(heap') = Cardinality(UnexpiredAt(Cur, t))
               /\ heap' # <<>> => nodes'[heap'[1]].expiresAt > t]_vars

\* A sweep has taken an entry and left two, of which the more recently
\* used one expires later.
SweepKeepsUnexpiredWitness ==
    /\ last.op = "cleanExpired"
    /\ last.removed # {}
    /\ Len(KeyList(Cur)) >= 2
    /\ ExpiryOfKey(Cur, KeyList(Cur)[1]) > ExpiryOfKey(Cur, KeyList(Cur)[2])

----------------------------------------------------------------------------
(* C31: get changes nothing it should not.  get of a key that is not in     *)
(* the index returns null and leaves the whole state as it was; get of an   *)
(* expired key removes only that entry; get of a live key changes only      *)
(* the recency order (that entry becomes the head, the others keep their    *)
(* relative order) and no value, no expiresAt, not the heap and not         *)
(* size().                                                                  *)

\* The fields of every node of st1 other than its links are those in st2.
PayloadKept(st1, st2) ==
    /\ DOMAIN st2.nodes = DOMAIN st1.nodes
    /\ \A r \in DOMAIN st1.nodes :
        /\ st2.nodes[r].key = st1.nodes[r].key
        /\ st2.nodes[r].value = st1.nodes[r].value
        /\ st2.nodes[r].expiresAt = st1.nodes[r].expiresAt
        /\ st2.nodes[r].heapIndex = st1.nodes[r].heapIndex

GetFrame ==
    [][Called("get")
        => LET key == last'.args.key.str
           IN  /\ UNCHANGED <<maxSize, cleanupInterval, autoCleanup, cleanupTimer, timers, now>>
               /\ IF ~Has(Cur, last'.args.key)
                  THEN /\ last'.ret = RetNull
                       /\ Cur' = Cur
                  ELSE IF now >= ExpiryOfKey(Cur, key)
                  THEN /\ DOMAIN cache' = DOMAIN cache \ {key}
                       /\ EntriesKept(Cur, Cur')
                       /\ KeyList(Cur') = Restrict(KeyList(Cur), DOMAIN cache \ {key})
                       /\ SeqRange(heap') = SeqRange(heap) \ {cache[key]}
                  ELSE /\ cache' = cache
                       /\ heap' = heap
                       /\ PayloadKept(Cur, Cur')
                       /\ Size(Cur') = Size(Cur)
                       /\ head' = cache[key]
                       /\ KeyList(Cur') = <<key>> \o Restrict(KeyList(Cur), DOMAIN cache \ {key})]_vars

\* A get has moved the middle entry of a list of three to the head; the
\* heap still has a different node at its root.
GetFrameWitness ==
    /\ last.op = "get"
    /\ last.ret.type = "value"
    /\ last.at = "middle"
    /\ Len(KeyList(Cur)) = MaxCap + 1
    /\ head = cache[last.args.key.str]
    /\ heap[1] # head

----------------------------------------------------------------------------
(* C32: immediately after set has inserted a new key at the clock reading   *)
(* now, no entry with expiresAt <= now is left in the cache; evict is       *)
(* only entered from set, after the sweep, with an unexpired heap           *)
(* minimum, so its branch for expired entries is never the one that         *)
(* removes an entry.                                                        *)

\* The state in which set tests the capacity: the one cleanExpired(now) left.
SweptForSet == CleanExpired(Cur, now).st

NoExpiredAfterInsert ==
    [][(Called("set") /\ last'.ret = RetVoid /\ ~Has(Cur, last'.args.key))
        => /\ ExpiredAt(Cur', now) = {}
           /\ AtCapacity(SweptForSet)
                => /\ EvictBranch(SweptForSet, now) # "expired"
                   /\ HeapSize(SweptForSet.heap) > 0
                        => /\ nodes[HeapPeek(SweptForSet.heap)].expiresAt > now
                           /\ DOMAIN cache \ DOMAIN cache'
                                = ExpiredAt(Cur, now)
                                    \cup {nodes[HeapPeek(SweptForSet.heap)].key}]_vars

\* A set of a new key into a full cache has removed two entries, both
\* expired: the sweep took them and evict was not entered.
NoExpiredAfterInsertWitness ==
    /\ last.op = "set"
    /\ last.at = "none"
    /\ last.ret = RetVoid
    /\ Cardinality(last.removed) = 2
    /\ \A n \in last.removed : n.expiresAt <= now
    /\ ExpiredAt(Cur, now) = {}
    /\ Size(Cur) = 1

----------------------------------------------------------------------------
(* C33: get, cleanExpired and evict agree on when an entry is expired,      *)
(* the boundary now = expiresAt included: at the same clock reading t and   *)
(* for any key k in the index, get(k) returns a value if and only if        *)
(* cleanExpired(t) would not remove k, that is exactly while                *)
(* t < expiresAt; evict finds an expired minimum exactly when some entry    *)
(* has expiresAt <= t.                                                      *)

StringKey(k) == [isString |-> TRUE, str |-> k]

ExpiryTestsAgree ==
    \A t \in ProbeTimes :
        /\ \A k \in DOMAIN cache :
            /\ (Get(Cur, StringKey(k), t).ret # NULL) <=> (k \in DOMAIN CleanExpired(Cur, t).st.cache)
            /\ (Get(Cur, StringKey(k), t).ret # NULL) <=> (t < ExpiryOfKey(Cur, k))
        /\ (EvictBranch(Cur, t) = "expired") <=> (ExpiredAt(Cur, t) # {})

\* The clock has reached the expiry of one entry exactly, and another entry
\* is still live.
ExpiryTestsAgreeWitness ==
    /\ now > 0
    /\ \E k \in DOMAIN cache : ExpiryOfKey(Cur, k) = now
    /\ \E k \in DOMAIN cache : ExpiryOfKey(Cur, k) > now

----------------------------------------------------------------------------
(* C34: unlinking is idempotent: removeFromList on a node that is already   *)
(* detached (prev and next both null, not the head of a one-element list)   *)
(* is a no-op that leaves head, tail and the links of every other node as   *)
(* they were, also when the list is not empty.  The code does not do        *)
(* this: with prev null it assigns head = node.next and with next null      *)
(* tail = node.prev, so head and tail become null and the entries of a      *)
(* non-empty list are cut off.                                              *)

UnlinkIdempotent ==
    [][Called("removeFromList")
        => /\ head' = head
           /\ tail' = tail
           /\ nodes' = nodes
           /\ cache' = cache
           /\ heap' = heap]_vars

\* removeFromList on a detached node has emptied the list of a cache that
\* still has two entries in its index and its heap.
UnlinkCutsList ==
    /\ last.op = "removeFromList"
    /\ Size(Cur) = 2
    /\ Len(heap) = 2
    /\ head = NULL
    /\ tail = NULL

----------------------------------------------------------------------------
(* C35: in every reachable state the recency list is a well-formed doubly   *)
(* linked list: head is null iff tail is null iff size() is 0; head.prev    *)
(* and tail.next are null; for every linked node n, n.next.prev = n and     *)
(* n.prev.next = n; following next from head reaches tail in exactly        *)
(* size() steps with no cycle; a node removed from the cache has prev and   *)
(* next null.                                                               *)

\* The part about the nodes in the list.
ListLinked ==
    /\ (head = NULL) <=> (tail = NULL)
    /\ (head = NULL) <=> (Size(Cur) = 0)
    /\ head # NULL => nodes[head].prev = NULL /\ nodes[tail].next = NULL
    /\ \A n \in SeqRange(ListOf(Cur)) :
        /\ nodes[n].next # NULL => nodes[nodes[n].next].prev = n
        /\ nodes[n].prev # NULL => nodes[nodes[n].prev].next = n
    /\ Len(ListOf(Cur)) = Size(Cur)
    /\ Cardinality(SeqRange(ListOf(Cur))) = Size(Cur)
    /\ head # NULL => ListOf(Cur)[Size(Cur)] = tail

\* The nodes the last call removed from the index have no links.
RemovedDetached == \A n \in last.removed : n.prev = NULL /\ n.next = NULL

ListWellFormedAlways == ListLinked /\ RemovedDetached

(* C35, as the code has it: the list is well formed in every reachable      *)
(* state, and a node that get, delete, set or a sweep has removed from      *)
(* the cache has prev and next null; clear (also the one of destroy)        *)
(* drops the whole list without touching the links of its nodes.            *)

ListWellFormed ==
    /\ ListLinked
    /\ last.op \notin {"clear", "destroy"} => RemovedDetached

\* A delete has taken the middle node out of a list of three: the two that
\* are left link to each other and the removed node has no links.
ListWellFormedWitness ==
    /\ last.op = "delete"
    /\ last.at = "middle"
    /\ Size(Cur) = 2
    /\ nodes[head].next = tail
    /\ nodes[tail].prev = head
    /\ last.removed # {}
    /\ RemovedDetached

----------------------------------------------------------------------------
(* C36: every operation terminates: the loop of cleanExpired removes one    *)
(* entry per iteration and stops when the heap is empty or its minimum is   *)
(* not expired, and bubbleUp and bubbleDown stop after at most as many      *)
(* swaps as the heap is high, also when several entries have the same       *)
(* expiresAt.  The loops are counted with a limit of LoopFuel iterations:   *)
(* a loop that did not stop would reach the limit.                          *)

LoopFuel == 2 * MaxHeap

\* The level of position i of the array: 0 for the root.
RECURSIVE Depth(_)
Depth(i) == IF i = 0 THEN 0 ELSE 1 + Depth((i - 1) \div 2)

\* The iterations of the loop of bubbleUp(idx) that swap.
RECURSIVE BubbleUpIterations(_, _, _)
BubbleUpIterations(hs, idx, fuel) ==
    IF fuel = 0 \/ idx = 0
    THEN 0
    ELSE IF hs.nodes[hs.heap[idx + 1]].expiresAt
                >= hs.nodes[hs.heap[(idx - 1) \div 2 + 1]].expiresAt
    THEN 0
    ELSE 1 + BubbleUpIterations(HeapSwap(hs, idx, (idx - 1) \div 2), (idx - 1) \div 2, fuel - 1)

\* `smallest` in bubbleDown(idx): idx itself or the child to swap with.
SmallestOf(hs, idx) ==
    LET exp(i) == hs.nodes[hs.heap[i + 1]].expiresAt
        left == 2 * idx + 1
        right == 2 * idx + 2
        s1 == IF left < Len(hs.heap) /\ exp(left) < exp(idx) THEN left ELSE idx
    IN  IF right < Len(hs.heap) /\ exp(right) < exp(s1) THEN right ELSE s1

\* The iterations of the loop of bubbleDown(idx) that swap.
RECURSIVE BubbleDownIterations(_, _, _)
BubbleDownIterations(hs, idx, fuel) ==
    IF fuel = 0 \/ SmallestOf(hs, idx) = idx
    THEN 0
    ELSE 1 + BubbleDownIterations(HeapSwap(hs, idx, SmallestOf(hs, idx)),
                                  SmallestOf(hs, idx), fuel - 1)

\* The iterations of the loop of cleanExpired(t) that extract a node.
RECURSIVE SweepIterations(_, _, _)
SweepIterations(hs, t, fuel) ==
    IF fuel = 0 \/ Len(hs.heap) = 0
    THEN 0
    ELSE IF hs.nodes[HeapPeek(hs.heap)].expiresAt > t
    THEN 0
    ELSE 1 + SweepIterations(HeapExtractMin(hs).hs, t, fuel - 1)

\* The heap with the expiry of one node replaced: the array in which
\* insert, remove and extractMin start a sift on that node.
Displaced(node, expiresAt) == [CurHeap EXCEPT !.nodes[node].expiresAt = expiresAt]

HeapExpiries == {0} \cup {ExpiryOf(now, t.n) : t \in ValidTtlArgs} \cup {INFINITY}

LoopsBounded ==
    /\ \A r \in HeapNodes(heap), e \in HeapExpiries :
        /\ BubbleUpIterations(Displaced(r, e), nodes[r].heapIndex, LoopFuel)
                <= Depth(nodes[r].heapIndex)
        /\ BubbleDownIterations(Displaced(r, e), nodes[r].heapIndex, LoopFuel)
                <= Depth(Len(heap) - 1) - Depth(nodes[r].heapIndex)
    /\ \A t \in HeapExpiries :
        SweepIterations(CurHeap, t, LoopFuel)
            = Cardinality({r \in HeapNodes(heap) : nodes[r].expiresAt <= t})

\* A full heap in which three nodes share the smallest expiresAt, and a
\* node of the lowest level that would rise to the root in as many swaps as
\* the heap is high.
LoopsBoundedWitness ==
    /\ Len(heap) = MaxHeap
    /\ Cardinality({r \in HeapNodes(heap) : nodes[r].expiresAt = nodes[heap[1]].expiresAt}) >= 3
    /\ \E r \in HeapNodes(heap) :
        /\ Depth(nodes[r].heapIndex) = Depth(MaxHeap - 1)
        /\ BubbleUpIterations(Displaced(r, 0), nodes[r].heapIndex, LoopFuel) = Depth(MaxHeap - 1)
    /\ SweepIterations(CurHeap, nodes[heap[1]].expiresAt, LoopFuel) >= 3

----------------------------------------------------------------------------
(* C37: heap back-pointers are exact in every reachable state: for every    *)
(* position i of the heap array, heap[i].heapIndex = i, and every node      *)
(* that remove or extractMin (also the ones of an eviction or a sweep)      *)
(* takes out of the heap has heapIndex -1 afterwards, so remove(node)       *)
(* deletes that node and never a different one.                             *)

BackPointersExact ==
    /\ \A i \in 0 .. Len(heap) - 1 : nodes[heap[i + 1]].heapIndex = i
    /\ \A r \in HeapNodes(heap) :
        /\ HeapRemove(CurHeap, r).nodes[r].heapIndex = NO_INDEX
        /\ HeapNodes(HeapRemove(CurHeap, r).heap) = HeapNodes(heap) \ {r}
        /\ Len(HeapRemove(CurHeap, r).heap) = Len(heap) - 1
    /\ heap # <<>>
        => /\ HeapExtractMin(CurHeap).node = heap[1]
           /\ HeapExtractMin(CurHeap).hs.nodes[heap[1]].heapIndex = NO_INDEX
           /\ HeapNodes(HeapExtractMin(CurHeap).hs.heap) = HeapNodes(heap) \ {heap[1]}

\* An update has taken a node from an inner position of a full heap and
\* put it back at another position; the array is not in the order in which
\* the nodes were made.
BackPointersExactWitness ==
    /\ last.op = "heap.update"
    /\ last.at = "inner"
    /\ Len(heap) = MaxHeap
    /\ \E i \in 1 .. MaxHeap : heap[i] # i
    /\ \A i \in 0 .. Len(heap) - 1 : nodes[heap[i + 1]].heapIndex = i

----------------------------------------------------------------------------
(* C38: in MinHeap.remove of a node that is not the last of the array,      *)
(* after the last element has been moved into the vacated position, at      *)
(* most one of the two sifts (bubbleUp, then bubbleDown on that position)   *)
(* performs a swap, and the heap property holds afterwards.                 *)

\* The array in remove(node) after swap(idx, lastIdx), pop() and
\* node.heapIndex = -1.
Vacated(hs, node) ==
    [heap |-> HeapPop(HeapSwap(hs, hs.nodes[node].heapIndex, Len(hs.heap) - 1).heap),
     nodes |-> [HeapSwap(hs, hs.nodes[node].heapIndex, Len(hs.heap) - 1).nodes
                    EXCEPT ![node].heapIndex = NO_INDEX]]

SwapsUp(node) == BubbleUpIterations(Vacated(CurHeap, node), nodes[node].heapIndex, LoopFuel)

SwapsDown(node) ==
    BubbleDownIterations(BubbleUp(Vacated(CurHeap, node), nodes[node].heapIndex),
                         nodes[node].heapIndex, LoopFuel)

IsMinHeap(hs) ==
    \A i \in 1 .. Len(hs.heap) - 1 :
        hs.nodes[hs.heap[i + 1]].expiresAt >= hs.nodes[hs.heap[(i - 1) \div 2 + 1]].expiresAt

OneSiftSwaps ==
    \A r \in HeapNodes(heap) :
        nodes[r].heapIndex < Len(heap) - 1
            => /\ SwapsUp(r) = 0 \/ SwapsDown(r) = 0
               /\ HeapRemove(CurHeap, r)
                    = BubbleDown(BubbleUp(Vacated(CurHeap, r), nodes[r].heapIndex),
                                 nodes[r].heapIndex)
               /\ IsMinHeap(HeapRemove(CurHeap, r))

\* A full heap with a node, below the root, whose removal makes the moved
\* element rise, and then not sink.
OneSiftSwapsWitness ==
    /\ Len(heap) = MaxHeap
    /\ \E r \in HeapNodes(heap) :
        /\ nodes[r].heapIndex < Len(heap) - 1
        /\ SwapsUp(r) > 0
        /\ SwapsDown(r) = 0

====
